---- MODULE Spec2Model ----
(***************************************************************************)
(* A model of nightseek's visibility-and-merit engine:                     *)
(*   - select_best_objects, score_object   (src/cli/scoring.py)            *)
(*   - find_next_visible_night /                                           *)
(*     find_next_optimal_night             (src/search.py)                 *)
(*   - SkyCalculator.get_night_info /                                      *)
(*     calculate_object_visibility         (src/sky_calculator.py)         *)
(*   - ForecastFormatter._group_by_weather_windows,                        *)
(*     _get_weather_category               (src/formatter.py)              *)
(*   - VisibilityAnalyzer._get_quality_description (src/analyzer.py)       *)
(* and of what surrounds it:                                               *)
(*   - ObjectSearcher._create_*_result     (src/search.py)                 *)
(*   - the update check and its two flows  (src/update_checker.py,         *)
(*                                          src/cli/main.py)               *)
(*   - CacheManager, load_bright_comets    (src/cache_manager.py,          *)
(*                                          src/catalog.py)                *)
(* Each component has its own specification (SpecSelect, SpecSearch and    *)
(* SpecSearchFair, SpecSky, SpecWindows, SpecScore, SpecCategory,          *)
(* SpecQuality, SpecResult, SpecUpdate, SpecCache); the variables of the   *)
(* other components stay at their initial values.                          *)
(***************************************************************************)
EXTENDS Integers, Sequences, FiniteSets, TLC

VARIABLES
    \* ---- select_best_objects ----
    all_scored,      \* the list of ScoredObject built by the caller
    sel_args,        \* the arguments of the call (a record), None before it
    selected,        \* the returned list
    sel_pc,          \* "scoring" | "selected"
    \* ---- find_next_visible_night / find_next_optimal_night ----
    max_days,        \* the horizon argument
    first_true,      \* the oracle: Some(b) = monotone with first true day b,
                     \* None = any predicate, any failed lookups
    queried,         \* the evaluations made so far: <<[day, outcome], ...>>
    probe_i,         \* position of the probe loop in check_days
    last_invisible,  \* lower end of the bracket
    first_visible,   \* upper end of the bracket, None until a probe is true
    search_pc,       \* "idle" | "probe" | "bisect" | "returned" | "raised"
    search_result,   \* the returned day offset, None for "not found"
    \* ---- SkyCalculator.get_night_info / calculate_object_visibility ----
    almanac,         \* what the almanac finds for the date (minutes from 00:00)
    night_info,      \* the NightInfo returned by get_night_info, None before
    sampled,         \* the sample times and altitudes of the night
    visibility,      \* the ObjectVisibility returned, None before
    sky_pc,          \* "date" | "night" | "done" | "raised"
    \* ---- ForecastFormatter._group_by_weather_windows ----
    forecast,        \* the NightForecast: dusk, dawn, hourly cloud cover
    windows,         \* the returned list of windows
    win_pc,          \* "forecast" | "grouped"
    \* ---- score_object ----
    score_args,      \* the inputs of the call (a record)
    scored,          \* the returned ScoredObject, None before
    score_pc,        \* "call" | "scored"
    \* ---- ForecastFormatter._get_weather_category ----
    clouds,          \* the cloud cover percentage passed
    weather_category, \* the returned (category, description, color), None before
    \* ---- VisibilityAnalyzer._get_quality_description ----
    altitude,        \* the altitude passed, in degrees
    quality,         \* the returned label, None before
    \* ---- ObjectSearcher._create_*_result ----
    res_args,        \* the object searched for and what tonight's check finds
    result,          \* the SearchResult returned, None before
    res_pc,          \* "create" | "searching" | "done" | "raised"
    \* ---- update_checker and the update flows of cli/main.py ----
    upd_cache,       \* update_check.json: None when absent, else its two keys
    upd_now,         \* the clock, in hours
    upd_remote,      \* the version at the head of the remote repository
    upd_installed,   \* the version put in place by the last successful update_tool
    upd_event,       \* what the last step did
    \* ---- CacheManager and Catalog.load_bright_comets ----
    cache_file,      \* the comet cache file: None when absent, else "fresh" | "stale"
    comets_df,       \* Catalog._comets_df: Some("loaded") or None
    cache_info,      \* the CacheInfo last returned, None before
    cache_event      \* what the last step did

selVars == <<all_scored, sel_args, selected, sel_pc>>
searchVars == <<max_days, first_true, queried, probe_i, last_invisible,
                first_visible, search_pc, search_result>>
skyVars == <<almanac, night_info, sampled, visibility, sky_pc>>
winVars == <<forecast, windows, win_pc>>
scoreVars == <<score_args, scored, score_pc>>
catVars == <<clouds, weather_category>>
qualVars == <<altitude, quality>>
resVars == <<res_args, result, res_pc>>
updVars == <<upd_cache, upd_now, upd_remote, upd_installed, upd_event>>
cacheVars == <<cache_file, comets_df, cache_info, cache_event>>
moreVars == <<resVars, updVars, cacheVars>>
labelVars == <<winVars, scoreVars, catVars, qualVars>>
coreVars == <<selVars, searchVars, skyVars>>
restVars == <<labelVars, moreVars>>

\* Python's None and a present Optional value.
None == <<>>
Some(x) == <<x>>

(***************************************************************************)
(* SelectionEngine: select_best_objects                                    *)
(***************************************************************************)

\* Bound: the longest input list.
MaxObjects == 3

\* Inputs: categories and subtypes of ScoredObject, and score values placed
\* around the default floor (60) and the default exceptional threshold (180).
Categories == {"dso", "comet"}
Subtypes == {"galaxy", "cluster"}
Scores == {59, 60, 180, 181}
MinScores == {60, 181}
SoftCaps == {0, 1, 2}
Thresholds == {180}

\* A ScoredObject; object_name is unique per catalog object, here the
\* position at which the caller appended it.
ScoredObject(name, cat, sub, score) ==
    [object_name |-> name, category |-> cat, subtype |-> sub, total_score |-> score]

\* Mutant of InList: the membership test never finds the object.
InList_Never(o, s) == FALSE

\* obj in list (dataclass equality: by value)
InList(o, s) == \E i \in 1..Len(s) : s[i] = o

\* sorted(..., key=total_score, reverse=True): stable, descending.
RECURSIVE InsertDesc(_, _)
InsertDesc(o, s) ==
    IF s = <<>> THEN <<o>>
    ELSE IF Head(s).total_score >= o.total_score
         THEN <<Head(s)>> \o InsertDesc(o, Tail(s))
         ELSE <<o>> \o s

RECURSIVE SortedDesc(_)
SortedDesc(s) ==
    IF s = <<>> THEN <<>>
    ELSE InsertDesc(s[Len(s)], SortedDesc(SubSeq(s, 1, Len(s) - 1)))

\* Mutant of Viable: the floor is exclusive.
Viable_Exclusive(objs, min_score) ==
    SelectSeq(objs, LAMBDA o : o.total_score > min_score)

\* viable = [o for o in all_scored_objects if o.total_score >= min_score]
Viable(objs, min_score) ==
    SelectSeq(objs, LAMBDA o : o.total_score >= min_score)

\* Mutant of Prefix: the slice indexes past the end of the list.
Prefix_Indexed(s, n) == [i \in 1..n |-> IF i <= Len(s) THEN s[i] ELSE "IndexError"]

\* viable[:max_objects] for max_objects >= 0
Prefix(s, n) == SubSeq(s, 1, IF n < Len(s) THEN n ELSE Len(s))

\* set(o.category for o in ranked)
CategoriesOf(s) == {s[i].category : i \in 1..Len(s)}

\* The orders in which a Python set of strings may be iterated.
IterationOrders(S) ==
    {p \in [1..Cardinality(S) -> S] :
        \A i, j \in 1..Cardinality(S) : i # j => p[i] # p[j]}

\* next((o for o in ranked if o.category == category), None)
BestInCategory(ranked, category) ==
    IF \E i \in 1..Len(ranked) : ranked[i].category = category
    THEN Some(ranked[CHOOSE i \in 1..Len(ranked) :
                  /\ ranked[i].category = category
                  /\ \A j \in 1..(i - 1) : ranked[j].category # category])
    ELSE None

\* selected.append(obj); subtype_counts[obj.subtype] += 1
Pick(st, o) ==
    [selected |-> Append(st.selected, o),
     subtype_counts |-> [st.subtype_counts EXCEPT ![o.subtype] = @ + 1]]

\* Mutant of CategoryPhase: the representation loop reserves nothing.
CategoryPhase_NoReserve(ranked, order, st) == st

\* The category-representation loop: no test against max_objects.
RECURSIVE CategoryPhase(_, _, _)
CategoryPhase(ranked, order, st) ==
    IF order = <<>> THEN st
    ELSE LET best == BestInCategory(ranked, Head(order))
         IN CategoryPhase(ranked, Tail(order),
                IF best # None /\ ~InList(best[1], st.selected)
                THEN Pick(st, best[1])
                ELSE st)

\* The soft-cap test of the fill loop: skip unless exceptional.
CapSkips(count, score, soft_cap, threshold) ==
    count >= soft_cap /\ score < threshold

\* The fill loop over ranked, from position i.
RECURSIVE FillPhase(_, _, _, _, _, _)
FillPhase(ranked, i, st, max_objects, soft_cap, threshold) ==
    IF i > Len(ranked) THEN st
    ELSE IF Len(st.selected) >= max_objects THEN st
    ELSE LET obj == ranked[i]
         IN FillPhase(ranked, i + 1,
                IF InList(obj, st.selected) THEN st
                ELSE IF CapSkips(st.subtype_counts[obj.subtype], obj.total_score,
                                 soft_cap, threshold)
                     THEN st
                     ELSE Pick(st, obj),
                max_objects, soft_cap, threshold)

\* select_best_objects; `order` is the iteration order of the category set.
select_best_objects(objs, max_objects, min_score, soft_cap, threshold, ensure, order) ==
    LET viable == Viable(objs, min_score)
    IN IF viable = <<>>
       THEN Prefix(SortedDesc(objs), max_objects)
       ELSE LET ranked == SortedDesc(viable)
                st0 == [selected |-> <<>>, subtype_counts |-> [s \in Subtypes |-> 0]]
                st1 == IF ensure THEN CategoryPhase(ranked, order, st0) ELSE st0
                st2 == FillPhase(ranked, 1, st1, max_objects, soft_cap, threshold)
            IN SortedDesc(st2.selected)

SelectIdle ==
    /\ all_scored = <<>>
    /\ sel_args = None
    /\ selected = <<>>
    /\ sel_pc = "scoring"

SearchIdle ==
    /\ max_days = 0
    /\ first_true = None
    /\ queried = <<>>
    /\ probe_i = 1
    /\ last_invisible = 0
    /\ first_visible = None
    /\ search_pc = "idle"
    /\ search_result = None

SkyIdle ==
    /\ almanac = None
    /\ night_info = None
    /\ sampled = None
    /\ visibility = None
    /\ sky_pc = "idle"

WinIdle ==
    /\ forecast = None
    /\ windows = <<>>
    /\ win_pc = "idle"

ScoreIdle ==
    /\ score_args = None
    /\ scored = None
    /\ score_pc = "idle"

CatIdle ==
    /\ clouds = 0
    /\ weather_category = None

QualIdle ==
    /\ altitude = 0
    /\ quality = None

ResIdle ==
    /\ res_args = None
    /\ result = None
    /\ res_pc = "idle"

UpdIdle ==
    /\ upd_cache = None
    /\ upd_now = 0
    /\ upd_remote = 0
    /\ upd_installed = None
    /\ upd_event = "idle"

CacheIdle ==
    /\ cache_file = None
    /\ comets_df = None
    /\ cache_info = None
    /\ cache_event = "idle"

MoreIdle == ResIdle /\ UpdIdle /\ CacheIdle
LabelIdle == WinIdle /\ ScoreIdle /\ CatIdle /\ QualIdle
CoreIdle == SelectIdle /\ SearchIdle /\ SkyIdle
RestIdle == LabelIdle /\ MoreIdle

InitSelect == SelectIdle /\ SearchIdle /\ SkyIdle /\ RestIdle

\* rank_objects_for_night: all_scored.append(scored)
AppendScored ==
    /\ sel_pc = "scoring"
    /\ Len(all_scored) < MaxObjects
    /\ \E cat \in Categories, sub \in Subtypes, score \in Scores :
         all_scored' = Append(all_scored,
                              ScoredObject(Len(all_scored) + 1, cat, sub, score))
    /\ UNCHANGED <<sel_args, selected, sel_pc>>
    /\ UNCHANGED <<searchVars, skyVars, restVars>>

\* the call of select_best_objects on the list built so far
SelectBestObjects ==
    /\ sel_pc = "scoring"
    /\ \E n \in 0..MaxObjects, ms \in MinScores, cap \in SoftCaps,
          thr \in Thresholds, ens \in BOOLEAN :
         \E order \in IterationOrders(CategoriesOf(Viable(all_scored, ms))) :
            /\ sel_args' = Some([max_objects |-> n, min_score |-> ms,
                                 soft_cap_per_subtype |-> cap,
                                 exceptional_score_threshold |-> thr,
                                 ensure_category_representation |-> ens])
            /\ selected' = select_best_objects(all_scored, n, ms, cap, thr, ens, order)
    /\ sel_pc' = "selected"
    /\ UNCHANGED all_scored
    /\ UNCHANGED <<searchVars, skyVars, restVars>>

NextSelect == AppendScored \/ SelectBestObjects

vars == <<selVars, searchVars, skyVars, winVars, scoreVars, catVars, qualVars,
          resVars, updVars, cacheVars>>

SpecSelect == InitSelect /\ [][NextSelect]_vars

(***************************************************************************)
(* NightSearch: find_next_visible_night / find_next_optimal_night.  The    *)
(* two functions are the same code up to the predicate they evaluate       *)
(* (check_visibility_for_night / check_optimal_for_night); the predicate   *)
(* is the oracle here, so one machine models both.                         *)
(***************************************************************************)

\* MAX_SEARCH_DAYS, the default of max_days
MAX_SEARCH_DAYS == 365

\* Bound: the largest horizon searched with an unconstrained predicate.
MaxHorizon == 61

\* check_days = [0, 1, 7, 14, 30, 60, 90, 180, 365]
ProbeOffsets == <<0, 1, 7, 14, 30, 60, 90, 180, 365>>

\* Mutant of CheckDays: the probe list is not capped at the horizon.
CheckDays_Uncapped(horizon) == ProbeOffsets

\* check_days = [d for d in check_days if d <= max_days]
CheckDays(horizon) == SelectSeq(ProbeOffsets, LAMBDA d : d <= horizon)

\* What one evaluation of a day can come to:
\*   "no_position"  get_ra_dec returned None
\*   "polar"        get_night_info found no astronomical dusk/dawn
\*   "visible"      the check returned (True, visibility)
\*   "not_visible"  the check returned (False, _)
Outcomes == {"no_position", "polar", "visible", "not_visible"}

\* get_ra_dec and the sky are functions of the date: a day evaluated before
\* answers as it did; a monotone predicate answers by its first true day.
Answers(day) ==
    IF \E k \in 1..Len(queried) : queried[k].day = day
    THEN {queried[k].outcome : k \in {j \in 1..Len(queried) : queried[j].day = day}}
    ELSE IF first_true # None
         THEN {IF day >= first_true[1] THEN "visible" ELSE "not_visible"}
         ELSE Outcomes

\* Mutant of Mid: the bracket is scanned day by day from its upper end.
Mid_Linear(lo, hi) == hi - 1

\* Mutant of Mid: the middle is taken at the lower end of the bracket.
Mid_LowerEnd(lo, hi) == lo

\* mid = (last_invisible + first_visible) // 2
Mid(lo, hi) == (lo + hi) \div 2

\* Mutant of BracketOpen: the binary search is skipped.
BracketOpen_Never(lo, hi) == FALSE

\* Mutant of BracketOpen: the loop stops one day early.
BracketOpen_OffByOne(lo, hi) == hi - lo > 2

\* while first_visible - last_invisible > 1
BracketOpen(lo, hi) == hi - lo > 1

\* get_night_info: the assert on the twilight times
NightInfoRaises(outcome) == outcome = "polar"

InitSearch ==
    /\ SelectIdle
    /\ SkyIdle
    /\ RestIdle
    /\ \/ /\ max_days \in {MAX_SEARCH_DAYS} \cup (0..MaxHorizon)
          /\ \E b \in 0..(max_days + 1) : first_true = Some(b)
       \/ /\ max_days \in 0..MaxHorizon
          /\ first_true = None
    /\ queried = <<>>
    /\ probe_i = 1
    /\ last_invisible = 0
    /\ first_visible = None
    /\ search_pc = "probe"
    /\ search_result = None

\* One iteration of the probe loop (and, after the last probe, the
\* `if first_visible is None: return None` that follows the loop).
ProbeStep ==
    /\ search_pc = "probe"
    /\ LET check_days == CheckDays(max_days)
           day_offset == check_days[probe_i]
           exhausted == probe_i = Len(check_days)
       IN \E outcome \in Answers(day_offset) :
            /\ queried' = Append(queried, [day |-> day_offset, outcome |-> outcome])
            /\ IF outcome = "no_position"
               THEN \* continue
                    /\ UNCHANGED <<last_invisible, first_visible>>
                    /\ probe_i' = probe_i + 1
                    /\ search_pc' = IF exhausted THEN "returned" ELSE "probe"
               ELSE IF NightInfoRaises(outcome)
               THEN /\ UNCHANGED <<last_invisible, first_visible, probe_i>>
                    /\ search_pc' = "raised"
               ELSE IF outcome = "visible"
               THEN \* break
                    /\ first_visible' = Some(day_offset)
                    /\ UNCHANGED <<last_invisible, probe_i>>
                    /\ search_pc' = "bisect"
               ELSE /\ last_invisible' = day_offset
                    /\ UNCHANGED first_visible
                    /\ probe_i' = probe_i + 1
                    /\ search_pc' = IF exhausted THEN "returned" ELSE "probe"
    /\ UNCHANGED <<max_days, first_true, search_result>>
    /\ UNCHANGED <<selVars, skyVars, restVars>>

\* One iteration of the binary search.
BisectStep ==
    /\ search_pc = "bisect"
    /\ BracketOpen(last_invisible, first_visible[1])
    /\ LET mid == Mid(last_invisible, first_visible[1])
       IN \E outcome \in Answers(mid) :
            /\ queried' = Append(queried, [day |-> mid, outcome |-> outcome])
            /\ IF outcome = "no_position"
               THEN /\ last_invisible' = mid
                    /\ UNCHANGED <<first_visible, search_pc>>
               ELSE IF NightInfoRaises(outcome)
               THEN /\ UNCHANGED <<last_invisible, first_visible>>
                    /\ search_pc' = "raised"
               ELSE IF outcome = "visible"
               THEN /\ first_visible' = Some(mid)
                    /\ UNCHANGED <<last_invisible, search_pc>>
               ELSE /\ last_invisible' = mid
                    /\ UNCHANGED <<first_visible, search_pc>>
    /\ UNCHANGED <<max_days, first_true, probe_i, search_result>>
    /\ UNCHANGED <<selVars, skyVars, restVars>>

\* After the loop: the first visible night is evaluated again to build the
\* returned tuple (date, night_info, visibility).
ReturnStep ==
    /\ search_pc = "bisect"
    /\ ~BracketOpen(last_invisible, first_visible[1])
    /\ LET visible_date == first_visible[1]
       IN \E outcome \in Answers(visible_date) :
            /\ queried' = Append(queried, [day |-> visible_date, outcome |-> outcome])
            /\ IF outcome = "no_position"
               THEN search_pc' = "returned" /\ search_result' = None
               ELSE IF NightInfoRaises(outcome)
               THEN search_pc' = "raised" /\ search_result' = None
               ELSE IF outcome = "visible"
               THEN search_pc' = "returned" /\ search_result' = Some(visible_date)
               ELSE \* (False, visibility): None if visibility is None
                    /\ search_pc' = "returned"
                    /\ search_result' \in {None, Some(visible_date)}
    /\ UNCHANGED <<max_days, first_true, probe_i, last_invisible, first_visible>>
    /\ UNCHANGED <<selVars, skyVars, restVars>>

NextSearch == ProbeStep \/ BisectStep \/ ReturnStep

SpecSearch == InitSearch /\ [][NextSearch]_vars

\* The call runs to its end: the interpreter keeps executing the loops of
\* find_next_visible_night, so a step that stays possible is taken.
SpecSearchFair == SpecSearch /\ WF_vars(NextSearch)

(***************************************************************************)
(* NightSampler: SkyCalculator.get_night_info and                          *)
(* calculate_object_visibility.  Times are minutes from 00:00 UTC of the   *)
(* date; the almanac and the position oracle are inputs.                   *)
(***************************************************************************)

\* timedelta(days=1), in minutes
MinutesPerDay == 1440

\* Bound: the longest night sampled, in minutes.
MaxNightMinutes == 30

\* Inputs: dusk times, altitudes around the thresholds 0, 45, 60, 75, moon
\* illuminations around 50 % and moon separations around 30 degrees.
DuskTimes == {10, 1430}
Altitudes == {0 - 10, 0, 44, 45, 60, 75, 80}
MoonIlluminations == {50, 51}
MoonSeparations == {29, 30}
ObjectTypes == {"dso", "planet"}

\* if end <= start: end = end + timedelta(days=1)
NightEnd(dusk, dawn) == IF dawn <= dusk THEN dawn + MinutesPerDay ELSE dawn

\* The nights the almanac can report within the bound.
Nights ==
    {n \in DuskTimes \X (0..(2 * MinutesPerDay - 1)) :
        NightEnd(n[1], n[2]) - n[1] <= MaxNightMinutes}

\* What almanac.find_discrete yields for a date: an ordinary night, or a
\* date without astronomical darkness (dusk and/or dawn not found), or one
\* on which the Sun neither sets nor rises.
AlmanacInputs ==
    {[sun_events |-> TRUE, astronomical_dusk |-> Some(n[1]),
      astronomical_dawn |-> Some(n[2])] : n \in Nights}
    \cup {[sun_events |-> TRUE, astronomical_dusk |-> None, astronomical_dawn |-> None],
          [sun_events |-> TRUE, astronomical_dusk |-> Some(10), astronomical_dawn |-> None],
          [sun_events |-> FALSE, astronomical_dusk |-> None, astronomical_dawn |-> None]}

\* sample_interval = 60 if coarse else 10
SampleInterval(coarse) == IF coarse THEN 60 ELSE 10

\* Mutant of SampleTimes: the loop runs one sample past the end of the night.
SampleTimes_PastEnd(start, end, interval) ==
    [k \in 1..((end - start) \div interval + 2) |-> start + (k - 1) * interval]

\* current = start; while current <= end: times.append(current); current += interval
SampleTimes(start, end, interval) ==
    [k \in 1..((end - start) \div interval + 1) |-> start + (k - 1) * interval]

\* Mutant of ArgMax: the index of the first sample, whatever its altitude.
ArgMax_FirstSample(altitudes) == 1

\* altitudes.argmax(): the first index of the maximum
ArgMax(altitudes) ==
    CHOOSE i \in 1..Len(altitudes) :
        /\ \A j \in 1..Len(altitudes) : altitudes[j] <= altitudes[i]
        /\ \A j \in 1..(i - 1) : altitudes[j] < altitudes[i]

\* find_above_threshold: first and last sample with altitude >= threshold
find_above_threshold(times, altitudes, threshold) ==
    LET indices == {i \in 1..Len(altitudes) : altitudes[i] >= threshold}
    IN IF indices = {}
       THEN <<None, None>>
       ELSE <<Some(times[CHOOSE i \in indices : \A j \in indices : i <= j]),
              Some(times[CHOOSE i \in indices : \A j \in indices : i >= j])>>

\* The ObjectVisibility returned when dusk or dawn is missing.
NotVisible(obj_type) ==
    [object_type |-> obj_type, is_visible |-> FALSE, max_altitude |-> 0,
     max_altitude_time |-> None,
     above_45_start |-> None, above_45_end |-> None,
     above_60_start |-> None, above_60_end |-> None,
     above_75_start |-> None, above_75_end |-> None,
     moon_separation |-> None, moon_warning |-> FALSE]

\* calculate_object_visibility on the sampled altitudes; moon_sep is the
\* separation the oracle reports at the peak.
calculate_object_visibility(obj_type, info, times, altitudes, moon_sep) ==
    LET max_idx == ArgMax(altitudes)
        max_altitude == altitudes[max_idx]
        max_altitude_time == times[max_idx]
        is_visible == max_altitude > 0
        above_45 == find_above_threshold(times, altitudes, 45)
        above_60 == find_above_threshold(times, altitudes, 60)
        above_75 == find_above_threshold(times, altitudes, 75)
    IN [object_type |-> obj_type, is_visible |-> is_visible,
        max_altitude |-> max_altitude,
        max_altitude_time |-> IF is_visible THEN Some(max_altitude_time) ELSE None,
        above_45_start |-> above_45[1], above_45_end |-> above_45[2],
        above_60_start |-> above_60[1], above_60_end |-> above_60[2],
        above_75_start |-> above_75[1], above_75_end |-> above_75[2],
        moon_separation |-> IF is_visible THEN Some(moon_sep) ELSE None,
        moon_warning |-> /\ is_visible
                         /\ info.moon_illumination > 50
                         /\ moon_sep < 30
                         /\ obj_type = "dso"]

InitSky ==
    /\ SelectIdle
    /\ SearchIdle
    /\ RestIdle
    /\ \E a \in AlmanacInputs, m \in MoonIlluminations :
         almanac = Some([sun_events |-> a.sun_events,
                         astronomical_dusk |-> a.astronomical_dusk,
                         astronomical_dawn |-> a.astronomical_dawn,
                         moon_illumination |-> m])
    /\ night_info = None
    /\ sampled = None
    /\ visibility = None
    /\ sky_pc = "date"

\* get_night_info: the assert that sunset, sunrise, dusk and dawn were found
GetNightInfo ==
    /\ sky_pc = "date"
    /\ LET a == almanac[1]
       IN IF a.sun_events /\ a.astronomical_dusk # None /\ a.astronomical_dawn # None
          THEN /\ night_info' = Some([astronomical_dusk |-> a.astronomical_dusk,
                                      astronomical_dawn |-> a.astronomical_dawn,
                                      moon_illumination |-> a.moon_illumination])
               /\ sky_pc' = "night"
          ELSE \* AssertionError
               /\ night_info' = None
               /\ sky_pc' = "raised"
    /\ UNCHANGED <<almanac, sampled, visibility>>
    /\ UNCHANGED <<selVars, searchVars, restVars>>

\* calculate_object_visibility(obj, obj_name, obj_type, night_info, coarse)
CalculateObjectVisibility ==
    /\ sky_pc = "night"
    /\ LET info == night_info[1]
       IN \E obj_type \in ObjectTypes, coarse \in BOOLEAN :
            IF info.astronomical_dusk = None \/ info.astronomical_dawn = None
            THEN /\ visibility' = Some(NotVisible(obj_type))
                 /\ sampled' = Some([times |-> <<>>, altitudes |-> <<>>])
            ELSE LET start == info.astronomical_dusk[1]
                     end == NightEnd(start, info.astronomical_dawn[1])
                     times == SampleTimes(start, end, SampleInterval(coarse))
                 IN \E altitudes \in [1..Len(times) -> Altitudes],
                       moon_sep \in MoonSeparations :
                      /\ sampled' = Some([times |-> times, altitudes |-> altitudes])
                      /\ visibility' = Some(calculate_object_visibility(
                                               obj_type, info, times, altitudes, moon_sep))
    /\ sky_pc' = "done"
    /\ UNCHANGED <<almanac, night_info>>
    /\ UNCHANGED <<selVars, searchVars, restVars>>

NextSky == GetNightInfo \/ CalculateObjectVisibility

SpecSky == InitSky /\ [][NextSky]_vars

(***************************************************************************)
(* ForecastFormatter._get_weather_category and                             *)
(* VisibilityAnalyzer._get_quality_description: the label functions.       *)
(***************************************************************************)

MaxPercent == 100
MaxAltitude == 90

\* _get_weather_category(clouds): (category, description, color)
get_weather_category(c) ==
    IF c < 10 THEN <<"excellent", "Excellent", "green">>
    ELSE IF c < 25 THEN <<"good", "Good", "green">>
    ELSE IF c < 40 THEN <<"fair", "Fair", "yellow">>
    ELSE IF c < 60 THEN <<"poor", "Poor", "yellow">>
    ELSE <<"bad", "Cloudy", "red">>

InitCategory ==
    /\ CoreIdle /\ MoreIdle
    /\ WinIdle /\ ScoreIdle /\ QualIdle
    /\ clouds \in 0..MaxPercent
    /\ weather_category = None

\* the call self._get_weather_category(clouds)
GetWeatherCategory ==
    /\ weather_category = None
    /\ weather_category' = Some(get_weather_category(clouds))
    /\ UNCHANGED clouds
    /\ UNCHANGED <<coreVars, moreVars, winVars, scoreVars, qualVars>>

NextCategory == GetWeatherCategory

SpecCategory == InitCategory /\ [][NextCategory]_vars

\* Mutant of get_quality_description: the "Very Good" tier starts at 65.
get_quality_description_65(a) ==
    IF a >= 75 THEN "Excellent"
    ELSE IF a >= 65 THEN "Very Good"
    ELSE IF a >= 45 THEN "Good"
    ELSE "Fair"

\* _get_quality_description(altitude)
get_quality_description(a) ==
    IF a >= 75 THEN "Excellent"
    ELSE IF a >= 60 THEN "Very Good"
    ELSE IF a >= 45 THEN "Good"
    ELSE "Fair"

InitQuality ==
    /\ CoreIdle /\ MoreIdle
    /\ WinIdle /\ ScoreIdle /\ CatIdle
    /\ altitude \in (0 - MaxAltitude)..MaxAltitude
    /\ quality = None

\* the call self._get_quality_description(altitude)
GetQualityDescription ==
    /\ quality = None
    /\ quality' = Some(get_quality_description(altitude))
    /\ UNCHANGED altitude
    /\ UNCHANGED <<coreVars, moreVars, winVars, scoreVars, catVars>>

NextQuality == GetQualityDescription

SpecQuality == InitQuality /\ [][NextQuality]_vars

(***************************************************************************)
(* ForecastFormatter._group_by_weather_windows.  Times are minutes on one  *)
(* axis; the keys of hourly_data are whole hours.                          *)
(***************************************************************************)

MinutesPerHour == 60
MaxHours == 4
HourKeys == {h * MinutesPerHour : h \in 0..MaxHours}
WinDusks == {60, 90}
WinDawns == {30, 180, 210}
CloudCovers == {5, 15, 20}
MaxWindowObjects == 2

\* the scored objects passed to the call, in the caller's order
WinScored ==
    <<ScoredObject(1, "dso", "galaxy", 60), ScoredObject(2, "comet", "cluster", 180)>>

\* sorted(...) of a set of hours: ascending
RECURSIVE SortedHours(_)
SortedHours(S) ==
    IF S = {} THEN <<>>
    ELSE LET m == CHOOSE x \in S : \A y \in S : x <= y
         IN <<m>> \o SortedHours(S \ {m})

\* Mutant of NightHours: the hour at dawn is left out.
NightHours_BeforeDawn(dusk, dawn, data) ==
    SortedHours({h \in DOMAIN data : dusk <= h /\ h < dawn})

\* night_hours: the hours h of hourly_data with dusk <= h <= dawn, sorted
NightHours(dusk, dawn, data) ==
    SortedHours({h \in DOMAIN data : dusk <= h /\ h <= dawn})

RECURSIVE SumOf(_)
SumOf(s) == IF s = <<>> THEN 0 ELSE Head(s) + SumOf(Tail(s))

MinOfSeq(s) == CHOOSE x \in {s[i] : i \in 1..Len(s)} : \A i \in 1..Len(s) : x <= s[i]
MaxOfSeq(s) == CHOOSE x \in {s[i] : i \in 1..Len(s)} : \A i \in 1..Len(s) : s[i] <= x

\* one window dict; avg_clouds is the fraction <<sum, count>>
Window(start, end, cur_clouds, cat) ==
    [start |-> start, end |-> end,
     avg_clouds |-> Some(<<SumOf(cur_clouds), Len(cur_clouds)>>),
     min_clouds |-> MinOfSeq(cur_clouds), max_clouds |-> MaxOfSeq(cur_clouds),
     weather_category |-> Some(cat), objects |-> <<>>]

\* the loop over night_hours[1:], then the final window up to dawn
RECURSIVE GroupHours(_, _, _, _, _, _, _, _)
GroupHours(night_hours, data, i, ws, cur_start, cur_cat, cur_clouds, dawn) ==
    IF i > Len(night_hours)
    THEN Append(ws, Window(cur_start, dawn, cur_clouds, cur_cat))
    ELSE LET hour == night_hours[i]
             cat == get_weather_category(data[hour])[1]
         IN IF cat # cur_cat
            THEN GroupHours(night_hours, data, i + 1,
                            Append(ws, Window(cur_start, hour, cur_clouds, cur_cat)),
                            hour, cat, <<data[hour]>>, dawn)
            ELSE GroupHours(night_hours, data, i + 1, ws,
                            cur_start, cur_cat, Append(cur_clouds, data[hour]), dawn)

\* the windows before objects are assigned
WeatherWindows(dusk, dawn, weather) ==
    LET night_hours == IF weather = None THEN <<>>
                       ELSE NightHours(dusk, dawn, weather[1])
        ws == IF night_hours = <<>> THEN <<>>
              ELSE GroupHours(night_hours, weather[1], 2, <<>>, night_hours[1],
                              get_weather_category(weather[1][night_hours[1]])[1],
                              <<weather[1][night_hours[1]]>>, dawn)
    IN IF ws = <<>>
       THEN <<[start |-> dusk, end |-> dawn, avg_clouds |-> None,
               weather_category |-> None, objects |-> <<>>]>>
       ELSE ws

\* the objects of one window: those visible in it, best first, at most
\* max_objects of them
WindowObjects(visible, max_objects) ==
    Prefix(SortedDesc(SelectSeq(WinScored, LAMBDA o : o.object_name \in visible)),
           max_objects)

\* [w for w in windows if w["objects"]]
NonEmptyWindows(ws) == SelectSeq(ws, LAMBDA w : w.objects # <<>>)

\* dawn, a day later when dawn <= dusk
WinDawn(dusk, dawn) == IF dawn <= dusk THEN dawn + MinutesPerDay ELSE dawn

\* _group_by_weather_windows; vis[k] is the set of scored objects that
\* _get_window_altitude_info reports visible in the k-th window
group_by_weather_windows(f, max_objects, vis) ==
    IF f.astronomical_dusk = None \/ f.astronomical_dawn = None
    THEN <<>>
    ELSE LET dusk == f.astronomical_dusk[1]
             dawn == WinDawn(dusk, f.astronomical_dawn[1])
             ws == WeatherWindows(dusk, dawn, f.weather)
         IN NonEmptyWindows(
                [k \in 1..Len(ws) |->
                    [ws[k] EXCEPT !.objects = WindowObjects(vis[k], max_objects)]])

\* the number of windows built before objects are assigned
WindowCount(f) ==
    IF f.astronomical_dusk = None \/ f.astronomical_dawn = None THEN 0
    ELSE Len(WeatherWindows(f.astronomical_dusk[1],
                            WinDawn(f.astronomical_dusk[1], f.astronomical_dawn[1]),
                            f.weather))

InitWindows ==
    /\ CoreIdle /\ MoreIdle
    /\ ScoreIdle /\ CatIdle /\ QualIdle
    /\ \E dusk \in {None} \cup {Some(t) : t \in WinDusks},
          dawn \in {None} \cup {Some(t) : t \in WinDawns} :
         forecast = Some([astronomical_dusk |-> dusk, astronomical_dawn |-> dawn,
                          weather |-> None])
    /\ windows = <<>>
    /\ win_pc = "forecast"

\* the forecast gets its hourly cloud cover
AttachWeather ==
    /\ win_pc = "forecast"
    /\ forecast[1].weather = None
    /\ \E data \in [HourKeys -> CloudCovers] :
         forecast' = Some([forecast[1] EXCEPT !.weather = Some(data)])
    /\ UNCHANGED <<windows, win_pc>>
    /\ UNCHANGED <<coreVars, moreVars, scoreVars, catVars, qualVars>>

\* the call self._group_by_weather_windows(forecast, scored_objects, max_objects)
GroupByWeatherWindows ==
    /\ win_pc = "forecast"
    /\ \E max_objects \in 0..MaxWindowObjects,
          vis \in [1..WindowCount(forecast[1]) -> SUBSET {1, 2}] :
         windows' = group_by_weather_windows(forecast[1], max_objects, vis)
    /\ win_pc' = "grouped"
    /\ UNCHANGED forecast
    /\ UNCHANGED <<coreVars, moreVars, scoreVars, catVars, qualVars>>

NextWindows == AttachWeather \/ GroupByWeatherWindows

SpecWindows == InitWindows /\ [][NextWindows]_vars

(***************************************************************************)
(* MeritScorer: score_object and its ten sub-score functions.  A score is  *)
(* an exact number <<whole, frac>> = whole + frac / Denominator, with      *)
(* 0 <= frac < Denominator; every product of the factors of the code is    *)
(* representable.  Angles are whole degrees, percentages whole percent,    *)
(* aod and airmass hundredths, times minutes, ra whole hours.              *)
(***************************************************************************)

Denominator == 1948000000

\* the number n / d, for d a divisor of Denominator
Q(n, d) == <<n \div d, (n % d) * (Denominator \div d)>>

Zero == <<0, 0>>

\* a + b
Plus(a, b) ==
    IF a[2] >= Denominator - b[2]
    THEN <<a[1] + b[1] + 1, a[2] - (Denominator - b[2])>>
    ELSE <<a[1] + b[1], a[2] + b[2]>>

\* a <= b
LessEq(a, b) == a[1] < b[1] \/ (a[1] = b[1] /\ a[2] <= b[2])

\* ScoreWeights(): DEFAULT_WEIGHTS, by breakdown key
DEFAULT_WEIGHTS ==
    [altitude |-> 40, moon |-> 30, timing |-> 15, weather |-> 15,
     surface_brightness |-> 20, magnitude |-> 15, type_suitability |-> 15,
     transient |-> 25, seasonal |-> 15, novelty |-> 10]

\* DSO_MOON_SENSITIVITY, in hundredths
DSO_MOON_SENSITIVITY ==
    [galaxy |-> 80, galaxy_group |-> 80, galaxy_pair |-> 80, galaxy_triplet |-> 80,
     galaxy_cluster |-> 70, planetary_nebula |-> 50, emission_nebula |-> 90,
     reflection_nebula |-> 95, supernova_remnant |-> 85, nebula |-> 85,
     open_cluster |-> 30, globular_cluster |-> 40, cluster_nebula |-> 70,
     quasar |-> 20, star |-> 10, double_star |-> 10, stellar_association |-> 30,
     asterism |-> 20, other |-> 50]

\* calculate_altitude_score; the result is weight * tier / 100
calculate_altitude_score(max_altitude, min_airmass, weights) ==
    LET w == weights.altitude
    IN IF min_airmass # None /\ min_airmass[1] < 9900
       THEN LET am == min_airmass[1]
            IN IF am <= 105 THEN Q(w * 95, 100)
               ELSE IF am <= 115 THEN Q(w * 90, 100)
               ELSE IF am <= 141 THEN Q(w * 75, 100)
               ELSE IF am <= 200 THEN Q(w * 55, 100)
               ELSE IF am <= 300 THEN Q(w * 30, 100)
               ELSE Q(w * 10, 100)
       ELSE IF max_altitude < 15 THEN Zero
       ELSE IF max_altitude >= 75 THEN Q(w * 95, 100)
       ELSE IF max_altitude >= 60 THEN Q(w * 85, 100)
       ELSE IF max_altitude >= 45 THEN Q(w * 70, 100)
       ELSE IF max_altitude >= 30 THEN Q(w * 50, 100)
       ELSE Q(w * 30, 100)

\* sensitivity of calculate_moon_interference_score, in hundredths
MoonSensitivity(object_type, dso_subtype) ==
    IF object_type = "dso" /\ dso_subtype # ""
    THEN IF dso_subtype \in DOMAIN DSO_MOON_SENSITIVITY
         THEN DSO_MOON_SENSITIVITY[dso_subtype]
         ELSE 50
    ELSE IF object_type = "comet" THEN 70
    ELSE IF object_type = "milky_way" THEN 100
    ELSE 50

\* Mutant of SeparationFactor: a separation on a boundary takes the lower
\* penalty.
SeparationFactor_Inclusive(moon_separation) ==
    IF moon_separation = None THEN 10
    ELSE IF moon_separation[1] >= 90 THEN 3
    ELSE IF moon_separation[1] >= 60 THEN 5
    ELSE IF moon_separation[1] >= 30 THEN 7
    ELSE 10

\* separation_factor of calculate_moon_interference_score, in tenths
SeparationFactor(moon_separation) ==
    IF moon_separation = None THEN 10
    ELSE IF moon_separation[1] > 90 THEN 3
    ELSE IF moon_separation[1] > 60 THEN 5
    ELSE IF moon_separation[1] > 30 THEN 7
    ELSE 10

\* calculate_moon_interference_score:
\* max_score * (1.0 - moon_factor * sensitivity * separation_factor)
calculate_moon_interference_score(moon_separation, moon_illumination, object_type, dso_subtype, weights) ==
    LET max_score == weights.moon
    IN IF object_type = "planet" THEN Q(max_score * 9, 10)
       ELSE IF moon_illumination < 5 THEN Q(max_score, 1)
       ELSE Q(max_score * (100000 - moon_illumination
                                      * MoonSensitivity(object_type, dso_subtype)
                                      * SeparationFactor(moon_separation)),
              100000)

\* calculate_peak_timing_score; hours_off < k is minutes off < 60 k
calculate_peak_timing_score(max_altitude_time, window_start, window_end, weights) ==
    LET max_score == weights.timing
    IN IF max_altitude_time = None THEN Q(max_score * 3, 10)
       ELSE LET peak == max_altitude_time[1]
                minutes_off == IF peak < window_start THEN window_start - peak
                               ELSE peak - window_end
            IN IF window_start <= peak /\ peak <= window_end THEN Q(max_score, 1)
               ELSE IF minutes_off < 60 THEN Q(max_score * 8, 10)
               ELSE IF minutes_off < 120 THEN Q(max_score * 6, 10)
               ELSE IF minutes_off < 240 THEN Q(max_score * 4, 10)
               ELSE Q(max_score * 2, 10)

\* base_score of calculate_weather_score, in tenths of max_score
CloudBase(c) ==
    IF c < 10 THEN 10
    ELSE IF c < 25 THEN 9
    ELSE IF c < 50 THEN 6
    ELSE IF c < 75 THEN 3
    ELSE 1

\* aod_factor, in hundredths
AodFactor(aod, is_deep_sky) ==
    IF aod = None THEN 100
    ELSE IF aod[1] < 10 THEN 100
    ELSE IF aod[1] < 20 THEN (IF is_deep_sky THEN 95 ELSE 98)
    ELSE IF aod[1] < 30 THEN (IF is_deep_sky THEN 85 ELSE 92)
    ELSE IF aod[1] < 50 THEN (IF is_deep_sky THEN 70 ELSE 85)
    ELSE (IF is_deep_sky THEN 50 ELSE 75)

\* transparency_factor, in twentieths
TransparencyFactor(transparency, is_deep_sky) ==
    IF transparency = None \/ ~is_deep_sky THEN 20
    ELSE IF transparency[1] >= 80 THEN 21
    ELSE IF transparency[1] >= 60 THEN 20
    ELSE IF transparency[1] >= 40 THEN 18
    ELSE 15

\* precip_factor, in tenths
PrecipFactor(precip_probability) ==
    IF precip_probability = None THEN 10
    ELSE IF precip_probability[1] > 70 THEN 3
    ELSE IF precip_probability[1] > 50 THEN 5
    ELSE IF precip_probability[1] > 30 THEN 7
    ELSE IF precip_probability[1] > 10 THEN 9
    ELSE 10

\* wind_factor, in hundredths
WindFactor(wind_gust_kmh, is_planet) ==
    IF wind_gust_kmh = None THEN 100
    ELSE IF wind_gust_kmh[1] < 15 THEN 100
    ELSE IF wind_gust_kmh[1] < 25 THEN (IF is_planet THEN 98 ELSE 95)
    ELSE IF wind_gust_kmh[1] < 40 THEN (IF is_planet THEN 92 ELSE 80)
    ELSE IF wind_gust_kmh[1] < 55 THEN (IF is_planet THEN 80 ELSE 60)
    ELSE (IF is_planet THEN 60 ELSE 40)

\* calculate_weather_score: base_score * aod_factor * transparency_factor *
\* precip_factor * wind_factor.  The product of the factors is over
\* 20,000,000; times max_score, a multiple of 5, it is
\* (max_score / 5) * product / 4,000,000.
calculate_weather_score(cloud_cover, aod, precip_probability, wind_gust_kmh, transparency, is_deep_sky, is_planet, weights) ==
    LET max_score == weights.weather
    IN IF cloud_cover = None THEN Q(max_score * 7, 10)
       ELSE Q((max_score \div 5) * CloudBase(cloud_cover[1])
                  * AodFactor(aod, is_deep_sky)
                  * TransparencyFactor(transparency, is_deep_sky)
                  * PrecipFactor(precip_probability)
                  * WindFactor(wind_gust_kmh, is_planet),
              4000000)

\* calculate_surface_brightness_score; estimated_sb stands for
\* magnitude + 2.5 * log10(max(area_arcsec2, 1))
calculate_surface_brightness_score(surface_brightness, magnitude, angular_size, estimated_sb, weights) ==
    LET max_score == weights.surface_brightness
    IN IF surface_brightness # None
       THEN LET sb == surface_brightness[1]
            IN IF sb < 20 THEN Q(max_score, 1)
               ELSE IF sb < 22 THEN Q(max_score * 8, 10)
               ELSE IF sb < 24 THEN Q(max_score * 6, 10)
               ELSE IF sb < 26 THEN Q(max_score * 4, 10)
               ELSE Q(max_score * 2, 10)
       ELSE IF magnitude # None /\ angular_size > 0
       THEN IF estimated_sb < 20 THEN Q(max_score, 1)
            ELSE IF estimated_sb < 22 THEN Q(max_score * 7, 10)
            ELSE IF estimated_sb < 24 THEN Q(max_score * 5, 10)
            ELSE Q(max_score * 3, 10)
       ELSE Q(max_score * 5, 10)

\* calculate_magnitude_score
calculate_magnitude_score(magnitude, object_type, weights) ==
    LET max_score == weights.magnitude
    IN IF magnitude = None THEN Q(max_score * 5, 10)
       ELSE LET m == magnitude[1]
            IN IF object_type = "planet"
               THEN IF m < 0 - 2 THEN Q(max_score, 1)
                    ELSE IF m < 0 THEN Q(max_score * 9, 10)
                    ELSE IF m < 2 THEN Q(max_score * 7, 10)
                    ELSE Q(max_score * 5, 10)
               ELSE IF object_type \in {"comet", "asteroid"}
               THEN IF m < 6 THEN Q(max_score, 1)
                    ELSE IF m < 8 THEN Q(max_score * 8, 10)
                    ELSE IF m < 10 THEN Q(max_score * 6, 10)
                    ELSE IF m < 12 THEN Q(max_score * 4, 10)
                    ELSE Q(max_score * 2, 10)
               ELSE IF m < 5 THEN Q(max_score, 1)
                    ELSE IF m < 7 THEN Q(max_score * 9, 10)
                    ELSE IF m < 9 THEN Q(max_score * 7, 10)
                    ELSE IF m < 11 THEN Q(max_score * 5, 10)
                    ELSE IF m < 13 THEN Q(max_score * 3, 10)
                    ELSE Q(max_score * 2, 10)

\* calculate_type_suitability_score
calculate_type_suitability_score(object_type, dso_subtype, moon_illumination, weights) ==
    LET max_score == weights.type_suitability
    IN IF moon_illumination < 30
       THEN IF object_type = "milky_way" THEN Q(max_score, 1)
            ELSE IF dso_subtype \in {"emission_nebula", "reflection_nebula", "galaxy"}
                 THEN Q(max_score * 95, 100)
            ELSE IF dso_subtype \in {"planetary_nebula", "supernova_remnant"}
                 THEN Q(max_score * 85, 100)
            ELSE IF object_type = "comet" THEN Q(max_score * 8, 10)
            ELSE IF dso_subtype \in {"open_cluster", "globular_cluster"}
                 THEN Q(max_score * 7, 10)
            ELSE IF object_type = "planet" THEN Q(max_score * 6, 10)
            ELSE Q(max_score * 5, 10)
       ELSE IF object_type = "planet" THEN Q(max_score, 1)
            ELSE IF dso_subtype \in {"globular_cluster", "open_cluster"}
                 THEN Q(max_score * 9, 10)
            ELSE IF dso_subtype = "planetary_nebula" THEN Q(max_score * 7, 10)
            ELSE IF object_type = "comet" THEN Q(max_score * 5, 10)
            ELSE IF dso_subtype \in {"galaxy", "emission_nebula"}
                 THEN Q(max_score * 3, 10)
            ELSE IF object_type = "milky_way" THEN Q(max_score * 1, 10)
            ELSE Q(max_score * 4, 10)

\* calculate_transient_bonus
calculate_transient_bonus(object_type, is_interstellar, is_near_perihelion, weights) ==
    LET max_bonus == weights.transient
    IN IF is_interstellar THEN Q(max_bonus, 1)
       ELSE IF object_type = "comet"
            THEN IF is_near_perihelion THEN Q(max_bonus * 7, 10)
                 ELSE Q(max_bonus * 5, 10)
       ELSE IF object_type = "asteroid" THEN Q(max_bonus * 3, 10)
       ELSE Zero

\* calculate_seasonal_window_score.  sun_ra = ((day_of_year - 80) / 365.25
\* * 24) % 24 is (32 * (day_of_year - 80) / 487) % 24: right ascensions are
\* held in 487ths of an hour.  max_score * ra_diff / 12, for max_score a
\* multiple of 3, is (max_score / 3) * ra_diff487 / 1948.
calculate_seasonal_window_score(ra_hours, day_of_year, weights) ==
    LET max_score == weights.seasonal
        sun_ra == (32 * (day_of_year - 80)) % (24 * 487)
        diff == ra_hours * 487 - sun_ra
        abs_diff == IF diff < 0 THEN 0 - diff ELSE diff
        ra_diff == IF abs_diff > 12 * 487 THEN 24 * 487 - abs_diff ELSE abs_diff
    IN Q((max_score \div 3) * ra_diff, 1948)

Digits == {"0", "1", "2", "3", "4", "5", "6", "7", "8", "9"}

\* str.isdigit() of a string held as a sequence of characters
IsDigit(s) == s # <<>> /\ \A i \in 1..Len(s) : s[i] \in Digits

\* s.split()[0] for s starting with a non-blank character
FirstPart(s) ==
    IF \E i \in 1..Len(s) : s[i] = " "
    THEN SubSeq(s, 1, (CHOOSE i \in 1..Len(s) :
                          s[i] = " " /\ \A j \in 1..(i - 1) : s[j] # " ") - 1)
    ELSE s

\* s.replace(" ", "")
WithoutSpaces(s) == SelectSeq(s, LAMBDA ch : ch # " ")

\* calculate_popularity_score
calculate_popularity_score(common_name, weights) ==
    LET max_score == weights.novelty
    IN IF common_name = <<>> THEN Zero
       ELSE IF /\ common_name[1] = "M"
               /\ Len(common_name) > 1
               /\ LET first_part == FirstPart(common_name)
                  IN \/ IsDigit(Tail(first_part))
                     \/ /\ Len(first_part) > 2
                        /\ IsDigit(WithoutSpaces(Tail(first_part)))
            THEN Q(max_score, 1)
       ELSE Q(max_score * 5, 10)

\* the keys of breakdown, in insertion order
BreakdownKeys ==
    <<"altitude", "moon", "timing", "weather", "surface_brightness", "magnitude",
      "type_suitability", "transient", "seasonal", "novelty">>

\* Mutant of SumValues: the last value is left out of the sum.
RECURSIVE SumValues_DropLast(_, _)
SumValues_DropLast(breakdown, keys) ==
    IF Len(keys) <= 1 THEN Zero
    ELSE Plus(breakdown[Head(keys)], SumValues_DropLast(breakdown, Tail(keys)))

\* sum(breakdown.values())
RECURSIVE SumValues(_, _)
SumValues(breakdown, keys) ==
    IF keys = <<>> THEN Zero
    ELSE Plus(breakdown[Head(keys)], SumValues(breakdown, Tail(keys)))

\* Mutant of Greater: the comparison is not strict.
Greater_OrEqual(a, b) == LessEq(b, a)

\* a > b on scores
Greater(a, b) == ~LessEq(a, b)

\* generate_score_reason: the phrases that ", ".join(reasons).capitalize()
\* puts into one string; capitalize() turns the first letter of the first
\* phrase, which is always the altitude phrase, to upper case
generate_score_reason(breakdown, max_altitude, moon_illumination) ==
    LET altitude_reason ==
            IF max_altitude >= 75 THEN "Excellent altitude"
            ELSE IF max_altitude >= 60 THEN "Very good altitude"
            ELSE IF max_altitude >= 45 THEN "Good altitude"
            ELSE IF max_altitude >= 30 THEN "Acceptable altitude"
            ELSE "Low altitude"
        moon_reason ==
            IF moon_illumination < 20 THEN "dark sky"
            ELSE IF moon_illumination < 50 THEN "moderate moonlight"
            ELSE IF Greater(breakdown.moon, Q(15, 1)) THEN "moon tolerable"
            ELSE "moon interference"
    IN <<altitude_reason, moon_reason>>
       \o (IF Greater(breakdown.transient, Q(15, 1)) THEN <<"rare target">> ELSE <<>>)
       \o (IF Greater(breakdown.seasonal, Q(10, 1)) THEN <<"peak season">> ELSE <<>>)

\* score_object, for a visibility that has the magnitude attribute
score_object(a, weights) ==
    LET v == a.visibility
        is_deep_sky == a.category \in {"dso", "milky_way", "comet"}
        is_planet == a.category = "planet"
        breakdown ==
            [altitude |-> calculate_altitude_score(v.max_altitude, v.min_airmass, weights),
             moon |-> calculate_moon_interference_score(
                          v.moon_separation, a.moon_illumination, a.category,
                          a.subtype, weights),
             timing |-> calculate_peak_timing_score(
                            v.max_altitude_time, a.window_start, a.window_end, weights),
             weather |-> calculate_weather_score(
                             a.cloud_cover, a.aod, a.precip_probability,
                             a.wind_gust_kmh, a.transparency, is_deep_sky,
                             is_planet, weights),
             surface_brightness |-> calculate_surface_brightness_score(
                                        a.surface_brightness, v.magnitude,
                                        a.angular_size, a.estimated_sb, weights),
             magnitude |-> calculate_magnitude_score(v.magnitude, a.category, weights),
             type_suitability |-> calculate_type_suitability_score(
                                      a.category, a.subtype, a.moon_illumination, weights),
             transient |-> calculate_transient_bonus(
                               a.category, a.is_interstellar, FALSE, weights),
             seasonal |-> calculate_seasonal_window_score(
                              a.ra_hours, a.day_of_year, weights),
             novelty |-> calculate_popularity_score(a.common_name, weights)]
    IN [object_name |-> v.object_name, category |-> a.category,
        subtype |-> a.subtype,
        total_score |-> SumValues(breakdown, BreakdownKeys),
        score_breakdown |-> breakdown,
        reason |-> generate_score_reason(breakdown, v.max_altitude, a.moon_illumination),
        magnitude |-> v.magnitude]

\* (category, subtype, is_interstellar) of the objects that are scored
ObjectKinds ==
    {<<"planet", "outer", FALSE>>, <<"dso", "galaxy", FALSE>>,
     <<"dso", "reflection_nebula", FALSE>>, <<"dso", "open_cluster", FALSE>>,
     <<"dso", "", FALSE>>, <<"dso", "unclassified", FALSE>>,
     <<"comet", "comet", FALSE>>, <<"comet", "interstellar", TRUE>>,
     <<"dwarf_planet", "dwarf_planet", FALSE>>, <<"asteroid", "asteroid", FALSE>>,
     <<"milky_way", "milky_way", FALSE>>}

\* whether the comet that is scored is near its perihelion: a fact of the
\* object that no parameter of score_object carries
PerihelionStates == BOOLEAN

\* visibility.magnitude: whether the attribute was set, and its value
MagnitudeAttrs == {<<FALSE, None>>, <<TRUE, None>>, <<TRUE, Some(4)>>, <<TRUE, Some(12)>>}

ScoreMoonIlluminations == {4, 5, 80, 100}
ScoreMoonSeparations == {None, Some(10), Some(30), Some(60), Some(90), Some(91)}
CloudInputs == {None, Some(5), Some(30)}
AodInputs == {None, Some(25)}
PrecipInputs == {None, Some(80)}
WindInputs == {None, Some(30)}
TransparencyInputs == {None, Some(80)}

\* the remaining inputs: peak altitude and airmass, peak time against the
\* window [1200, 1680], right ascension and day of year, common name,
\* surface brightness, angular size and estimated surface brightness
Situations ==
    {[max_altitude |-> 80, min_airmass |-> None, max_altitude_time |-> Some(1300),
      ra_hours |-> 12, day_of_year |-> 80, common_name |-> <<"M", "3", "1">>,
      surface_brightness |-> Some(21), angular_size |-> 1, estimated_sb |-> 21],
     [max_altitude |-> 10, min_airmass |-> None, max_altitude_time |-> None,
      ra_hours |-> 0, day_of_year |-> 80, common_name |-> <<>>,
      surface_brightness |-> None, angular_size |-> 1, estimated_sb |-> 23],
     [max_altitude |-> 50, min_airmass |-> Some(141), max_altitude_time |-> Some(1110),
      ra_hours |-> 24, day_of_year |-> 1, common_name |-> <<"M", "a", "r", "s">>,
      surface_brightness |-> None, angular_size |-> 0, estimated_sb |-> 12],
     [max_altitude |-> 30, min_airmass |-> Some(9900), max_altitude_time |-> Some(2000),
      ra_hours |-> 6, day_of_year |-> 366, common_name |-> <<"M", " ", "3", "1">>,
      surface_brightness |-> Some(27), angular_size |-> 1, estimated_sb |-> 27],
     [max_altitude |-> 60, min_airmass |-> None, max_altitude_time |-> Some(1300),
      ra_hours |-> 8, day_of_year |-> 80, common_name |-> <<>>,
      surface_brightness |-> None, angular_size |-> 1, estimated_sb |-> 23],
     [max_altitude |-> 45, min_airmass |-> None, max_altitude_time |-> Some(1300),
      ra_hours |-> 9, day_of_year |-> 80, common_name |-> <<>>,
      surface_brightness |-> None, angular_size |-> 1, estimated_sb |-> 23]}

InitScore ==
    /\ CoreIdle /\ MoreIdle
    /\ WinIdle /\ CatIdle /\ QualIdle
    /\ \E kind \in ObjectKinds, mag \in MagnitudeAttrs, s \in Situations,
          ill \in ScoreMoonIlluminations, sep \in ScoreMoonSeparations,
          cloud \in CloudInputs, aod \in AodInputs, precip \in PrecipInputs,
          wind \in WindInputs, transp \in TransparencyInputs,
          peri \in PerihelionStates :
         (peri => kind[1] = "comet") /\ score_args =
            Some([visibility |->
                      [object_name |-> 1, has_magnitude |-> mag[1],
                       magnitude |-> mag[2], max_altitude |-> s.max_altitude,
                       min_airmass |-> s.min_airmass,
                       max_altitude_time |-> s.max_altitude_time,
                       moon_separation |-> sep],
                  category |-> kind[1], subtype |-> kind[2],
                  is_interstellar |-> kind[3], near_perihelion |-> peri,
                  moon_illumination |-> ill, day_of_year |-> s.day_of_year,
                  window_start |-> 1200, window_end |-> 1680,
                  cloud_cover |-> cloud, aod |-> aod,
                  precip_probability |-> precip, wind_gust_kmh |-> wind,
                  transparency |-> transp, ra_hours |-> s.ra_hours,
                  common_name |-> s.common_name,
                  surface_brightness |-> s.surface_brightness,
                  angular_size |-> s.angular_size, estimated_sb |-> s.estimated_sb])
    /\ scored = None
    /\ score_pc = "call"

\* the call score_object(visibility, category, subtype, ...)
ScoreObject ==
    /\ score_pc = "call"
    /\ IF score_args[1].visibility.has_magnitude
       THEN /\ scored' = Some(score_object(score_args[1], DEFAULT_WEIGHTS))
            /\ score_pc' = "scored"
       ELSE \* visibility.magnitude: AttributeError
            /\ scored' = None
            /\ score_pc' = "raised"
    /\ UNCHANGED score_args
    /\ UNCHANGED <<coreVars, moreVars, winVars, catVars, qualVars>>

NextScore == ScoreObject

SpecScore == InitScore /\ [][NextScore]_vars

(***************************************************************************)
(* ObjectSearcher._create_dso_result, _create_planet_result and            *)
(* _create_comet_result.  Dates are day offsets from self.tonight.date;    *)
(* the call of find_next_visible_night is the search machine above, run    *)
(* with the default horizon over a monotone predicate.                     *)
(***************************************************************************)

SearchedTypes == {"dso", "planet", "comet"}

\* Mutant of next_visible_status: day 30 counts as later.
next_visible_status_Exclusive(days_until) ==
    IF days_until < 30 THEN "visible_soon" ELSE "visible_later"

\* status = "visible_soon" if days_until <= 30 else "visible_later"
next_visible_status(days_until) ==
    IF days_until <= 30 THEN "visible_soon" ELSE "visible_later"

\* SearchResult(...): the status fields of the dataclass
SearchResult(object_type, status, tonight, date, vis, never, reason) ==
    [object_type |-> object_type, visibility_status |-> status,
     visible_tonight |-> tonight, next_visible_date |-> date, visibility |-> vis,
     never_visible |-> never, never_visible_reason |-> reason,
     is_moving_object |-> object_type # "dso"]

\* the result of `if not can_be_visible` and of the except branch of
\* _create_comet_result
NeverVisibleResult(object_type, reason) ==
    SearchResult(object_type, "never_visible", FALSE, None, None, TRUE, Some(reason))

\* the result when the object is up tonight: next_visible_date is tonight
VisibleTonightResult(object_type) ==
    SearchResult(object_type, "visible_tonight", TRUE, Some(0), Some(0), FALSE, None)

\* the result built from the (date, night_info, vis) of find_next_visible_night
NextVisibleResult(object_type, date) ==
    SearchResult(object_type, next_visible_status(date), FALSE, Some(date),
                 Some(date), FALSE, None)

\* the result when find_next_visible_night returned None
BelowHorizonResult(object_type) ==
    SearchResult(object_type, "below_horizon", FALSE, None, None, FALSE,
                 Some(IF object_type = "planet"
                      THEN "Planet not visible at night within the next year"
                      ELSE IF object_type = "comet"
                      THEN "Comet not visible at night within the next year"
                      ELSE "Object not visible at night within the next year"))

InitResult ==
    /\ CoreIdle
    /\ LabelIdle /\ UpdIdle /\ CacheIdle
    /\ \E t \in SearchedTypes, can \in BOOLEAN, tonight \in BOOLEAN, err \in BOOLEAN :
         /\ err => t = "comet"
         /\ res_args = Some([object_type |-> t, can_be_visible |-> can,
                             visible_tonight |-> tonight, position_error |-> err])
    /\ result = None
    /\ res_pc = "create"

\* _create_*_result up to its call of find_next_visible_night.  A DSO has
\* fixed coordinates, so the first probe (day 0) repeats tonight's check; a
\* planet or comet is probed at the position of the date, which can differ.
CreateResult ==
    /\ res_pc = "create"
    /\ LET a == res_args[1]
           t == a.object_type
       IN IF t = "comet" /\ a.position_error
          THEN \* except Exception
               /\ result' = Some(NeverVisibleResult(t, "Unable to calculate comet position"))
               /\ res_pc' = "done"
               /\ UNCHANGED searchVars
          ELSE IF t # "planet" /\ ~a.can_be_visible
          THEN \* reason: the text returned by can_object_ever_be_visible
               /\ result' = Some(NeverVisibleResult(t, "reason"))
               /\ res_pc' = "done"
               /\ UNCHANGED searchVars
          ELSE IF a.visible_tonight
          THEN /\ result' = Some(VisibleTonightResult(t))
               /\ res_pc' = "done"
               /\ UNCHANGED searchVars
          ELSE \* find_next_visible_night(get_ra_dec, calculator, tonight.date)
               /\ max_days' = MAX_SEARCH_DAYS
               /\ \E b \in (IF t = "dso" THEN 1 ELSE 0)..(MAX_SEARCH_DAYS + 1) :
                    first_true' = Some(b)
               /\ search_pc' = "probe"
               /\ UNCHANGED <<queried, probe_i, last_invisible, first_visible,
                              search_result>>
               /\ res_pc' = "searching"
               /\ UNCHANGED result
    /\ UNCHANGED res_args
    /\ UNCHANGED <<selVars, skyVars, labelVars, updVars, cacheVars>>

\* _create_*_result after find_next_visible_night has ended
FinishResult ==
    /\ res_pc = "searching"
    /\ search_pc \in {"returned", "raised"}
    /\ LET t == res_args[1].object_type
       IN IF search_pc = "raised"
          THEN IF t = "comet"
               THEN \* except Exception
                    /\ result' = Some(NeverVisibleResult(t, "Unable to calculate comet position"))
                    /\ res_pc' = "done"
               ELSE /\ result' = None
                    /\ res_pc' = "raised"
          ELSE IF search_result # None
          THEN /\ result' = Some(NextVisibleResult(t, search_result[1]))
               /\ res_pc' = "done"
          ELSE /\ result' = Some(BelowHorizonResult(t))
               /\ res_pc' = "done"
    /\ UNCHANGED res_args
    /\ UNCHANGED <<coreVars, labelVars, updVars, cacheVars>>

NextResult == CreateResult \/ ProbeStep \/ BisectStep \/ ReturnStep \/ FinishResult

SpecResult == InitResult /\ [][NextResult]_vars

(***************************************************************************)
(* update_checker and the two update flows of cli/main.py, for a tool that *)
(* was installed (get_local_version returns "installed").  The clock       *)
(* counts hours; versions are numbered in the order they are published.    *)
(***************************************************************************)

\* UPDATE_CHECK_INTERVAL = timedelta(hours=24)
UPDATE_CHECK_INTERVAL == 24

\* Bound: the last hour of the clock.
MaxClock == 60

\* Bound: the number of versions published.
MaxRemote == 2

\* the steps of the clock between two runs of the tool, in hours
ClockSteps == {1, 24, 25}

\* get_local_version, outside a git checkout
get_local_version == "installed"

\* should_check_for_updates
should_check_for_updates(cache, now) ==
    IF cache = None THEN TRUE
    ELSE now - cache[1].last_check > UPDATE_CHECK_INTERVAL

\* save_check_timestamp: the other key of the file is kept
save_check_timestamp(cache, now) ==
    Some([last_check |-> now,
          last_remote_version |-> IF cache = None THEN None
                                  ELSE cache[1].last_remote_version])

\* save_installed_version
save_installed_version(cache, version, now) ==
    Some([last_check |-> now, last_remote_version |-> Some(version)])

\* is_update_available
is_update_available(local, remote, cache) ==
    IF local = "installed"
    THEN ~(/\ cache # None
           /\ cache[1].last_remote_version # None
           /\ cache[1].last_remote_version[1] = remote)
    ELSE local # remote

InitUpdate ==
    /\ CoreIdle
    /\ LabelIdle /\ ResIdle /\ CacheIdle
    /\ upd_cache = None
    /\ upd_now = 0
    /\ upd_remote \in 1..MaxRemote
    /\ upd_installed = None
    /\ upd_event = "start"

\* time passes between two runs of the tool
Tick ==
    /\ \E d \in ClockSteps :
         /\ upd_now + d <= MaxClock
         /\ upd_now' = upd_now + d
    /\ upd_event' = "tick"
    /\ UNCHANGED <<upd_cache, upd_remote, upd_installed>>
    /\ UNCHANGED <<coreVars, labelVars, resVars, cacheVars>>

\* a new commit reaches the main branch of the repository
Publish ==
    /\ upd_remote < MaxRemote
    /\ upd_remote' = upd_remote + 1
    /\ upd_event' = "publish"
    /\ UNCHANGED <<upd_cache, upd_now, upd_installed>>
    /\ UNCHANGED <<coreVars, labelVars, resVars, cacheVars>>

\* the update check at the end of a forecast run: check_for_updates(), then
\* update_tool() when it returned True.  fetched is what get_remote_version
\* returns (None on a network error), success the return of update_tool.
AutoUpdate ==
    /\ \E fetched \in {None, Some(upd_remote)}, success \in BOOLEAN :
         IF ~should_check_for_updates(upd_cache, upd_now)
         THEN /\ upd_event' = "auto_not_checked"
              /\ UNCHANGED <<upd_cache, upd_installed>>
         ELSE LET saved == save_check_timestamp(upd_cache, upd_now)
              IN /\ upd_cache' = saved
                 /\ IF fetched # None
                       /\ is_update_available(get_local_version, fetched[1], saved)
                    THEN IF success
                         THEN /\ upd_installed' = fetched
                              /\ upd_event' = "auto_installed"
                         ELSE /\ UNCHANGED upd_installed
                              /\ upd_event' = "auto_install_failed"
                    ELSE /\ UNCHANGED upd_installed
                         /\ upd_event' = "auto_no_update"
    /\ UNCHANGED <<upd_now, upd_remote>>
    /\ UNCHANGED <<coreVars, labelVars, resVars, cacheVars>>

\* nightseek --update
ManualUpdate ==
    /\ \E fetched \in {None, Some(upd_remote)}, success \in BOOLEAN :
         IF fetched = None
         THEN /\ upd_event' = "manual_network_error"
              /\ UNCHANGED <<upd_cache, upd_installed>>
         ELSE IF is_update_available(get_local_version, fetched[1], upd_cache)
         THEN IF success
              THEN /\ upd_installed' = fetched
                   /\ upd_cache' = save_installed_version(upd_cache, fetched[1], upd_now)
                   /\ upd_event' = "manual_installed"
              ELSE /\ UNCHANGED <<upd_cache, upd_installed>>
                   /\ upd_event' = "manual_install_failed"
         ELSE /\ UNCHANGED <<upd_cache, upd_installed>>
              /\ upd_event' = "manual_up_to_date"
    /\ UNCHANGED <<upd_now, upd_remote>>
    /\ UNCHANGED <<coreVars, labelVars, resVars, cacheVars>>

NextUpdate == Tick \/ Publish \/ AutoUpdate \/ ManualUpdate

SpecUpdate == InitUpdate /\ [][NextUpdate]_vars

(***************************************************************************)
(* CacheManager (check, download, ensure_fresh) and                        *)
(* Catalog.load_bright_comets, on the comet cache file.  The file is held  *)
(* by its age in hours; a download either writes a new file or fails       *)
(* before anything is written.                                             *)
(***************************************************************************)

\* CacheManager.ONE_DAY, in hours
ONE_DAY == 24

\* Bound: the oldest cache file.
MaxCacheAge == 26

\* the hours that pass between two uses of the cache
AgeSteps == {1, 12}

\* CacheInfo(path, exists, is_valid, age_seconds, was_downloaded)
CacheInfo(exists, is_valid, age, was_downloaded) ==
    [exists |-> exists, is_valid |-> is_valid, age |-> age,
     was_downloaded |-> was_downloaded]

\* CacheManager.check
check(file, max_age) ==
    IF file = None THEN CacheInfo(FALSE, FALSE, None, FALSE)
    ELSE CacheInfo(TRUE, file[1] < max_age, file, FALSE)

\* CacheManager.invalidate: the file after path.unlink()
invalidate(file) == None

\* CacheManager.download: the file afterwards and the CacheInfo returned;
\* ok is whether urlopen and the write went through
download(file, ok) ==
    IF ok THEN <<Some(0), CacheInfo(TRUE, TRUE, Some(0), TRUE)>>
    ELSE IF file # None THEN <<file, CacheInfo(TRUE, FALSE, file, FALSE)>>
    ELSE <<file, CacheInfo(FALSE, FALSE, None, FALSE)>>

\* CacheManager.ensure_fresh
ensure_fresh(file, max_age, ok) ==
    LET info == check(file, max_age)
    IN IF info.is_valid THEN <<file, info>> ELSE download(file, ok)

InitCache ==
    /\ CoreIdle
    /\ LabelIdle /\ ResIdle /\ UpdIdle
    /\ cache_file \in {None} \cup {Some(a) : a \in 0..MaxCacheAge}
    /\ comets_df = None
    /\ cache_info = None
    /\ cache_event = "start"

\* time passes: the file gets older
CacheAges ==
    /\ cache_file # None
    /\ \E d \in AgeSteps :
         /\ cache_file[1] + d <= MaxCacheAge
         /\ cache_file' = Some(cache_file[1] + d)
    /\ cache_event' = "aged"
    /\ UNCHANGED <<comets_df, cache_info>>
    /\ UNCHANGED <<coreVars, labelVars, resVars, updVars>>

\* a new run of the program: a Catalog with _comets_df = None
NewCatalog ==
    /\ comets_df # None
    /\ comets_df' = None
    /\ cache_event' = "new_catalog"
    /\ UNCHANGED <<cache_file, cache_info>>
    /\ UNCHANGED <<coreVars, labelVars, resVars, updVars>>

\* a call of CacheManager.download
Download ==
    /\ \E ok \in BOOLEAN :
         LET r == download(cache_file, ok)
         IN /\ cache_file' = r[1]
            /\ cache_info' = Some(r[2])
            /\ cache_event' = IF ok THEN "downloaded" ELSE "download_failed"
    /\ UNCHANGED comets_df
    /\ UNCHANGED <<coreVars, labelVars, resVars, updVars>>

\* a call of CacheManager.ensure_fresh
EnsureFresh ==
    /\ \E ok \in BOOLEAN :
         LET r == ensure_fresh(cache_file, ONE_DAY, ok)
         IN /\ cache_file' = r[1]
            /\ cache_info' = Some(r[2])
            /\ cache_event' = IF r[2].is_valid
                              THEN (IF r[2].was_downloaded THEN "downloaded"
                                    ELSE "cache_used")
                              ELSE "download_failed"
    /\ UNCHANGED comets_df
    /\ UNCHANGED <<coreVars, labelVars, resVars, updVars>>

\* a call of Catalog.load_bright_comets; ok is whether loader.open(COMET_URL)
\* can download the file
LoadBrightComets ==
    /\ \E ok \in BOOLEAN :
         LET info == check(cache_file, ONE_DAY)
         IN IF comets_df # None
            THEN /\ cache_event' = "comets_from_memory"
                 /\ UNCHANGED <<cache_file, comets_df>>
            ELSE IF info.is_valid
            THEN /\ comets_df' = Some("loaded")
                 /\ cache_event' = "comets_from_cache"
                 /\ UNCHANGED cache_file
            ELSE LET emptied == IF info.exists THEN invalidate(cache_file)
                                ELSE cache_file
                 IN IF ok
                    THEN /\ cache_file' = Some(0)
                         /\ comets_df' = Some("loaded")
                         /\ cache_event' = "comets_downloaded"
                    ELSE \* except Exception: return []
                         /\ cache_file' = emptied
                         /\ UNCHANGED comets_df
                         /\ cache_event' = "comets_download_failed"
    /\ UNCHANGED cache_info
    /\ UNCHANGED <<coreVars, labelVars, resVars, updVars>>

NextCache == CacheAges \/ NewCatalog \/ Download \/ EnsureFresh \/ LoadBrightComets

SpecCache == InitCache /\ [][NextCache]_vars

(***************************************************************************)
(* Properties of select_best_objects                                       *)
(***************************************************************************)

Returned == sel_pc = "selected"
Args == sel_args[1]
CountSubtype(s, sub) == Cardinality({i \in 1..Len(s) : s[i].subtype = sub})

\* C1: select_best_objects never returns more than max_objects objects,
\* whatever the list, the floor, the caps and the category-guarantee flag.
C1_LengthAtMostN ==
    Returned => Len(selected) <= Args.max_objects

\* C2: in the output no subtype appears more than soft_cap_per_subtype times
\* unless a returned object of that subtype has a score exceeding
\* exceptional_score_threshold, on every path of the function.
C2_SoftCapUnlessExceptional ==
    Returned =>
        \A sub \in Subtypes :
            CountSubtype(selected, sub) > Args.soft_cap_per_subtype =>
                \E i \in 1..Len(selected) :
                    /\ selected[i].subtype = sub
                    /\ selected[i].total_score > Args.exceptional_score_threshold

\* The precondition of C3: the guarantee is requested and max_objects is at
\* least the number of distinct categories of the input.
C3_Case ==
    /\ Returned
    /\ Args.ensure_category_representation
    /\ Args.max_objects >= Cardinality(CategoriesOf(all_scored))

SearchReturned == search_pc = "returned"
Monotone == first_true # None
LastQuery == queried[Len(queried)]

\* the least k with 2^k >= n (0 for n <= 1): ceil(log2(n))
RECURSIVE CeilLog2(_)
CeilLog2(n) == IF n <= 1 THEN 0 ELSE 1 + CeilLog2((n + 1) \div 2)

\* C4: for a monotone predicate whose first true day b is within the default
\* horizon, and no failed lookups, the search returns exactly day b.
C4_MonotoneReturnsBoundary ==
    (/\ SearchReturned
     /\ Monotone
     /\ max_days = MAX_SEARCH_DAYS
     /\ first_true[1] <= MAX_SEARCH_DAYS)
        => search_result = Some(first_true[1])

\* C4 witness: false at probes 0, 1, 7, 14, true at 30, and the returned day
\* is the boundary strictly between 14 and 30, found by the binary search.
C4_Witness ==
    /\ SearchReturned
    /\ Monotone
    /\ max_days = MAX_SEARCH_DAYS
    /\ first_true[1] > 14
    /\ first_true[1] < 29
    /\ search_result = first_true
    /\ \E k \in 1..Len(queried) : queried[k].day = 30 /\ queried[k].outcome = "visible"

\* C5: a call returns "not found" or a day offset within [0, max_days], for
\* any predicate, any horizon and any pattern of failed lookups.
C5_ResultWithinHorizon ==
    SearchReturned =>
        \/ search_result = None
        \/ (search_result[1] >= 0 /\ search_result[1] <= max_days)

\* C5 witness: a search over an arbitrary predicate with a failed lookup
\* that returns the horizon day itself.
C5_Witness ==
    /\ SearchReturned
    /\ ~Monotone
    /\ max_days > 1
    /\ search_result = Some(max_days)
    /\ \E k \in 1..Len(queried) : queried[k].outcome = "no_position"

\* The bound of C6 for a horizon.
EvaluationBound(horizon) == Len(CheckDays(horizon)) + CeilLog2(horizon) + 1

\* C6: the evaluations of one call number at most
\* (probe offsets <= H) + ceil(log2(H)) + 1, for any predicate and any
\* pattern of failed lookups.
C6_EvaluationsBounded ==
    Len(queried) <= EvaluationBound(max_days)

\* C6 witness: a call over an arbitrary predicate that used the whole bound,
\* binary search included.
C6_Witness ==
    /\ SearchReturned
    /\ ~Monotone
    /\ max_days > 7
    /\ Len(queried) = EvaluationBound(max_days)

\* C7: within one call no day offset is evaluated twice (probe phase, binary
\* search and the construction of the result included).
C7_EachDayEvaluatedOnce ==
    \A i, j \in 1..Len(queried) : i # j => queried[i].day # queried[j].day

\* C8: a day whose position lookup fails is handled as a false day: when the
\* search goes on after it, the lower bound of the bracket is that day.
C8_FailedLookupAdvancesBracket ==
    [][(/\ Len(queried') = Len(queried) + 1
        /\ queried'[Len(queried')].outcome = "no_position"
        /\ search_pc' \in {"probe", "bisect"})
            => last_invisible' = queried'[Len(queried')].day]_vars

\* the call has ended, by a return or by the exception of get_night_info
SearchEnded == search_pc \in {"returned", "raised"}

\* first_true - last_false, the width of the bracket of the binary search
BracketWidth == first_visible[1] - last_invisible

\* C22: every call ends, for any predicate, any horizon and any pattern of
\* failed lookups; during the probe phase no probe offset is visited twice,
\* and every iteration of the binary search that goes on, failed lookups
\* included, strictly narrows the bracket first_true - last_false, which is
\* at most 1 when the loop is left.
C22_SearchTerminates ==
    /\ <>SearchEnded
    /\ [](search_pc = "probe" =>
            /\ Len(queried) = probe_i - 1
            /\ \A i, j \in 1..Len(queried) : i # j => queried[i].day # queried[j].day)
    /\ [][(search_pc = "bisect" /\ search_pc' = "bisect") =>
            /\ BracketWidth > 1
            /\ first_visible'[1] - last_invisible' < BracketWidth]_vars
    /\ [][(search_pc = "bisect" /\ search_pc' = "returned") => BracketWidth <= 1]_vars

\* C22 witness: an ended call over an arbitrary predicate whose binary search
\* ran several iterations, one of them on a failed lookup.
C22_Witness ==
    /\ SearchEnded
    /\ ~Monotone
    /\ first_visible # None
    /\ \E k \in 1..Len(queried) :
          /\ queried[k].outcome = "no_position"
          /\ queried[k].day \notin {ProbeOffsets[i] : i \in 1..Len(ProbeOffsets)}
    /\ Len(queried) >= Len(CheckDays(max_days)) + 3

\* no lookup of the call failed (no missing position, no polar date)
NoFailedLookups ==
    \A k \in 1..Len(queried) : queried[k].outcome \in {"visible", "not_visible"}

\* C23: for any horizon, a monotone predicate without failed lookups that is
\* true on some day within the horizon is never answered "not found".
C23_HorizonDayExamined ==
    (/\ SearchReturned
     /\ Monotone
     /\ NoFailedLookups
     /\ first_true[1] <= max_days)
        => search_result # None

\* the day was examined in this call with the given outcomes
Examined(day, outcomes) ==
    \E k \in 1..Len(queried) : queried[k].day = day /\ queried[k].outcome \in outcomes

\* an iteration of the binary search is about to run or has run
InBinarySearch ==
    /\ search_pc = "bisect"
    /\ (BracketOpen(last_invisible, first_visible[1]) \/ Len(queried) > probe_i)

\* C24: for any predicate, a returned day d was evaluated true in the call,
\* and for d > 0 the day d-1 was examined with a non-true outcome (false or
\* failed lookup); during the binary search
\* 0 <= last_false < first_true <= max_days.
C24_ReturnedDayIsBoundary ==
    /\ (SearchReturned /\ search_result # None) =>
          /\ Examined(search_result[1], {"visible"})
          /\ search_result[1] > 0 =>
                Examined(search_result[1] - 1, {"not_visible", "no_position"})
    /\ InBinarySearch =>
          /\ 0 <= last_invisible
          /\ last_invisible < first_visible[1]
          /\ first_visible[1] <= max_days

\* C24 witness: over a non-monotone predicate the binary search returns a
\* day that is not a probe offset and whose predecessor failed its lookup.
C24_Witness ==
    /\ SearchReturned
    /\ ~Monotone
    /\ search_result # None
    /\ search_result[1] \notin {ProbeOffsets[i] : i \in 1..Len(ProbeOffsets)}
    /\ Examined(search_result[1] - 1, {"no_position"})
    /\ Examined(search_result[1] + 1, {"visible"})

(***************************************************************************)
(* Properties of get_night_info / calculate_object_visibility              *)
(***************************************************************************)

\* dusk or dawn could not be established for the date
PolarDate ==
    /\ almanac # None
    /\ (almanac[1].astronomical_dusk = None \/ almanac[1].astronomical_dawn = None)

\* C9: when dusk/dawn cannot be established for a date, computing that night
\* (and a NightSearch probe of that date) yields a non-visible result or a
\* non-match and never raises an exception.
C9_PolarNightNeverRaises ==
    /\ PolarDate => sky_pc # "raised"
    /\ search_pc # "raised"

\* window a is contained in window b; an empty window is contained in any
Within(a_start, a_end, b_start, b_end) ==
    \/ (a_start = None /\ a_end = None)
    \/ /\ a_start # None /\ a_end # None /\ b_start # None /\ b_end # None
       /\ b_start[1] <= a_start[1]
       /\ a_start[1] <= a_end[1]
       /\ a_end[1] <= b_end[1]

\* C10: the threshold windows are nested: window(75) within window(60)
\* within window(45) within [dusk, dawn], dawn taken a day later when
\* dawn <= dusk.
C10_WindowsNested ==
    sky_pc = "done" =>
        LET v == visibility[1]
            dusk == night_info[1].astronomical_dusk
            dawn == night_info[1].astronomical_dawn
        IN /\ Within(v.above_75_start, v.above_75_end, v.above_60_start, v.above_60_end)
           /\ Within(v.above_60_start, v.above_60_end, v.above_45_start, v.above_45_end)
           /\ Within(v.above_45_start, v.above_45_end,
                     dusk, Some(NightEnd(dusk[1], dawn[1])))

\* C10 witness: a night that wraps past midnight on which the three windows
\* are non-empty and strictly nested at their start.
C10_Witness ==
    /\ sky_pc = "done"
    /\ night_info[1].astronomical_dawn[1] <= night_info[1].astronomical_dusk[1]
    /\ visibility[1].above_75_start # None
    /\ visibility[1].above_45_start[1] < visibility[1].above_60_start[1]
    /\ visibility[1].above_60_start[1] < visibility[1].above_75_start[1]
    /\ visibility[1].above_75_end[1] < visibility[1].above_45_end[1]

(***************************************************************************)
(* Properties of calculate_object_visibility: the peak                     *)
(***************************************************************************)

Sampled == sky_pc = "done" /\ Len(sampled[1].times) > 0

\* the largest of the sampled altitudes
MaxOf(altitudes) ==
    CHOOSE a \in {altitudes[i] : i \in 1..Len(altitudes)} :
        \A j \in 1..Len(altitudes) : altitudes[j] <= a

\* the timestamps of the samples that attain altitude a
TimesAttaining(times, altitudes, a) ==
    {times[i] : i \in {j \in 1..Len(altitudes) : altitudes[j] = a}}

\* C11: max_altitude equals the maximum of all sampled altitudes and
\* max_altitude_time is the timestamp of a sample that attains it, also
\* when the maximum is at or below the horizon.
C11_PeakIsSampleMaximum ==
    Sampled =>
        LET v == visibility[1]
            s == sampled[1]
        IN /\ v.max_altitude = MaxOf(s.altitudes)
           /\ v.max_altitude_time # None
           /\ v.max_altitude_time[1] \in
                  TimesAttaining(s.times, s.altitudes, v.max_altitude)

\* C11 amended: max_altitude is the maximum of the samples; the peak time
\* is the timestamp of a sample attaining it when the maximum is above the
\* horizon, and is absent when the maximum is at or below the horizon.
C11_PeakTimeOnlyAboveHorizon ==
    Sampled =>
        LET v == visibility[1]
            s == sampled[1]
        IN /\ v.max_altitude = MaxOf(s.altitudes)
           /\ v.max_altitude > 0 =>
                 /\ v.max_altitude_time # None
                 /\ v.max_altitude_time[1] \in
                        TimesAttaining(s.times, s.altitudes, v.max_altitude)
           /\ v.max_altitude <= 0 => v.max_altitude_time = None

\* C11 witness: a curve of several samples whose maximum is on the horizon,
\* attained after a lower first sample.
C11_Witness ==
    /\ Sampled
    /\ Len(sampled[1].altitudes) >= 2
    /\ sampled[1].altitudes[1] < 0
    /\ visibility[1].max_altitude = 0
    /\ visibility[1].max_altitude_time = None

(***************************************************************************)
(* Properties of select_best_objects: empty input and the score floor      *)
(***************************************************************************)

\* C16: select_best_objects called with an empty list returns an empty
\* list, for every max_objects, min_score, soft cap, exceptional threshold
\* and category-guarantee flag.
C16_EmptyInputEmptyOutput ==
    (Returned /\ all_scored = <<>>) => selected = <<>>

\* C16 witness: the call on an empty list with room for objects and the
\* category guarantee enabled.
C16_Witness ==
    /\ Returned
    /\ all_scored = <<>>
    /\ Args.max_objects = MaxObjects
    /\ Args.ensure_category_representation

SomeReachFloor ==
    \E i \in 1..Len(all_scored) : all_scored[i].total_score >= Args.min_score

\* s holds n of the highest-scoring objects of objs, without repetition
HighestScoring(s, objs, n) ==
    /\ Len(s) = n
    /\ \A i \in 1..Len(s) : InList(s[i], objs)
    /\ \A i, j \in 1..Len(s) : i # j => s[i] # s[j]
    /\ \A k \in 1..Len(objs) :
         ~InList(objs[k], s) =>
            \A i \in 1..Len(s) : objs[k].total_score <= s[i].total_score

\* C20: if some input object reaches min_score then every returned object
\* reaches min_score; if none does, the result is exactly the
\* min(N, input length) highest-scoring input objects.
C20_FloorOrBestAvailable ==
    Returned =>
        IF SomeReachFloor
        THEN \A i \in 1..Len(selected) : selected[i].total_score >= Args.min_score
        ELSE HighestScoring(selected, all_scored,
                            IF Args.max_objects < Len(all_scored)
                            THEN Args.max_objects ELSE Len(all_scored))

\* C20 witness: no object reaches the floor, the scores differ, and the
\* best two of three are returned.
C20_Witness ==
    /\ Returned
    /\ ~SomeReachFloor
    /\ Len(all_scored) = 3
    /\ Len(selected) = 2
    /\ \E k \in 1..3 : all_scored[k].total_score < selected[2].total_score

(***************************************************************************)
(* Properties of the label functions                                       *)
(***************************************************************************)

\* C18: _get_weather_category classifies every cloud cover into three
\* categories: below 30 'clear' ('Clear', green), from 30 to below 60
\* 'partly' (yellow), 60 and above 'cloudy' (red).
C18_ThreeWeatherCategories ==
    weather_category # None =>
        LET r == weather_category[1]
        IN /\ clouds < 30 => r = <<"clear", "Clear", "green">>
           /\ (30 <= clouds /\ clouds < 60) => (r[1] = "partly" /\ r[3] = "yellow")
           /\ clouds >= 60 => (r[1] = "cloudy" /\ r[3] = "red")

\* C19: _get_quality_description maps every altitude to exactly one label:
\* 'Excellent' from 75, 'Very Good' from 60, 'Good' from 45, 'Fair' below.
C19_QualityLabels ==
    quality # None =>
        /\ quality[1] \in {"Excellent", "Very Good", "Good", "Fair"}
        /\ quality[1] = "Excellent" <=> altitude >= 75
        /\ quality[1] = "Very Good" <=> (60 <= altitude /\ altitude < 75)
        /\ quality[1] = "Good" <=> (45 <= altitude /\ altitude < 60)
        /\ quality[1] = "Fair" <=> altitude < 45

\* C19 witness: the boundary altitude 60 has been labelled.
C19_Witness ==
    /\ quality = Some("Very Good")
    /\ altitude = 60

(***************************************************************************)
(* Properties of _group_by_weather_windows                                 *)
(***************************************************************************)

\* the hourly data has an hour at or before dusk, one at or after dawn, and
\* every hour between them
CoversNight(f) ==
    /\ f.astronomical_dusk # None /\ f.astronomical_dawn # None
    /\ f.weather # None
    /\ LET dusk == f.astronomical_dusk[1]
           dawn == WinDawn(dusk, f.astronomical_dawn[1])
           keys == DOMAIN f.weather[1]
       IN \E h1, h2 \in keys :
            /\ h1 <= dusk /\ dawn <= h2
            /\ \A h \in keys : (h1 <= h /\ h < h2) => (h + MinutesPerHour) \in keys

\* the windows ws tile [start, end]: none runs backward, each ends where the
\* next starts, the first starts at start and the last ends at end
Tiles(ws, start, end) ==
    /\ Len(ws) >= 1
    /\ ws[1].start = start
    /\ ws[Len(ws)].end = end
    /\ \A k \in 1..Len(ws) : ws[k].start <= ws[k].end
    /\ \A k \in 1..(Len(ws) - 1) : ws[k].end = ws[k + 1].start

\* C12: whenever hourly weather data covers the whole night, the returned
\* windows are non-overlapping, sorted chronologically and their union is
\* the night span [dusk, dawn].
C12_WindowsTileTheNight ==
    (win_pc = "grouped" /\ CoversNight(forecast[1])) =>
        Tiles(windows, forecast[1].astronomical_dusk[1],
              WinDawn(forecast[1].astronomical_dusk[1],
                      forecast[1].astronomical_dawn[1]))

Grouped == win_pc = "grouped"
WinData == forecast[1].weather[1]
WinNightEnd == WinDawn(forecast[1].astronomical_dusk[1], forecast[1].astronomical_dawn[1])

\* the window built last: no hourly sample from its start to dawn has
\* another category
IsFinalWindow(w) ==
    \A h \in DOMAIN WinData :
        (w.start <= h /\ h <= WinNightEnd) =>
            get_weather_category(WinData[h])[1] = w.weather_category[1]

\* the hourly samples of a window: start <= h < end, and for the final
\* window start <= h <= dawn
SamplesOf(w) ==
    {h \in DOMAIN WinData :
        /\ w.start <= h
        /\ IF IsFinalWindow(w) THEN h <= WinNightEnd ELSE h < w.end}

RECURSIVE SumClouds(_)
SumClouds(S) ==
    IF S = {} THEN 0
    ELSE LET h == CHOOSE x \in S : TRUE IN WinData[h] + SumClouds(S \ {h})

\* avg, min and max of the window are those of its hourly samples
StatsFromSamples(w) ==
    w.weather_category # None =>
        LET S == SamplesOf(w)
        IN /\ S # {}
           /\ w.avg_clouds = Some(<<SumClouds(S), Cardinality(S)>>)
           /\ \E h \in S : WinData[h] = w.min_clouds
           /\ \A h \in S : w.min_clouds <= WinData[h]
           /\ \E h \in S : WinData[h] = w.max_clouds
           /\ \A h \in S : WinData[h] <= w.max_clouds

Scored == score_pc = "scored"
ScoreArgs == score_args[1]
Breakdown == scored[1].score_breakdown

\* the sum of f over the keys S
RECURSIVE SumOver(_, _)
SumOver(f, S) ==
    IF S = {} THEN Zero
    ELSE LET k == CHOOSE x \in S : TRUE
         IN Plus(f[k], SumOver(f, S \ {k}))

\* C13: total_score equals the sum of the values of score_breakdown, and
\* the breakdown contains exactly the ten factors.
C13_TotalIsSumOfTenFactors ==
    Scored =>
        /\ DOMAIN Breakdown =
              {"altitude", "moon", "timing", "weather", "surface_brightness",
               "magnitude", "type_suitability", "transient", "seasonal", "novelty"}
        /\ scored[1].total_score = SumOver(Breakdown, DOMAIN Breakdown)

\* C13 witness: a score whose ten factors are all non-zero and whose sum
\* carries a fraction.
C13_Witness ==
    /\ Scored
    /\ \A k \in DOMAIN Breakdown : Breakdown[k] # Zero
    /\ scored[1].total_score[2] # 0

\* the call has ended, by a return or by an exception
ScoreEnded == score_pc \in {"scored", "raised"}

\* C14: for inputs in the documented domains each of the ten sub-scores
\* lies in [0, its weight] (40, 30, 15, 15, 20, 15, 15, 25, 15, 10), and
\* total_score lies in [0, 200].
C14_SubScoresWithinWeights ==
    Scored =>
        /\ \A k \in DOMAIN Breakdown :
              /\ LessEq(Zero, Breakdown[k])
              /\ LessEq(Breakdown[k], Q(DEFAULT_WEIGHTS[k], 1))
        /\ LessEq(Zero, scored[1].total_score)
        /\ LessEq(scored[1].total_score, Q(200, 1))

\* the separation tiers as the claim C15 gives them, in tenths
ClaimedSeparationFactor(sep) ==
    IF sep < 30 THEN 10 ELSE IF sep < 60 THEN 7 ELSE IF sep < 90 THEN 5 ELSE 3

\* the separation tiers with the boundaries in the higher-penalty tier
AmendedSeparationFactor(sep) ==
    IF sep <= 30 THEN 10 ELSE IF sep <= 60 THEN 7 ELSE IF sep <= 90 THEN 5 ELSE 3

\* weight * (1 - illumination/100 * type_sensitivity * separation_factor)
MoonFormula(factor) ==
    Q(30 * (100000 - ScoreArgs.moon_illumination
                       * MoonSensitivity(ScoreArgs.category, ScoreArgs.subtype)
                       * factor),
      100000)

MoonCase ==
    /\ Scored
    /\ ScoreArgs.category # "planet"
    /\ ScoreArgs.moon_illumination >= 5

\* C15: for a non-planet object with moon illumination >= 5% the moon
\* sub-score is weight * (1 - illumination/100 * type_sensitivity *
\* separation_factor), with separation_factor 1.0 below 30 degrees, 0.7
\* below 60, 0.5 below 90 and 0.3 beyond, so that exactly 30, 60 or 90
\* falls in the lower-penalty tier.
C15_MoonTiersExclusive ==
    (MoonCase /\ ScoreArgs.visibility.moon_separation # None) =>
        Breakdown.moon =
            MoonFormula(ClaimedSeparationFactor(ScoreArgs.visibility.moon_separation[1]))

\* C15 amended: the same formula with separation_factor 1.0 up to and
\* including 30 degrees, 0.7 up to 60, 0.5 up to 90 and 0.3 beyond, and 1.0
\* when the separation is unknown.
C15_MoonTiersInclusive ==
    MoonCase =>
        Breakdown.moon =
            MoonFormula(IF ScoreArgs.visibility.moon_separation = None THEN 10
                        ELSE AmendedSeparationFactor(
                                 ScoreArgs.visibility.moon_separation[1]))

\* C15 witness: a reflection nebula exactly 30 degrees from an 80% moon
\* scores 30 x 0.24 = 7.2.
C15_Witness ==
    /\ MoonCase
    /\ ScoreArgs.category = "dso" /\ ScoreArgs.subtype = "reflection_nebula"
    /\ ScoreArgs.moon_illumination = 80
    /\ ScoreArgs.visibility.moon_separation = Some(30)
    /\ Breakdown.moon = Q(72, 10)

\* C17: when cloud cover is missing the call returns a ScoredObject with
\* all ten sub-scores, whose weather sub-score is exactly 0.7 x the weather
\* weight whatever the aerosol, precipitation, wind and transparency.
C17_MissingCloudNeutralWeather ==
    (ScoreEnded /\ ScoreArgs.cloud_cover = None) =>
        /\ Scored
        /\ Cardinality(DOMAIN Breakdown) = 10
        /\ Breakdown.weather = Q(105, 10)

(***************************************************************************)
(* Properties of select_best_objects: order, membership, no repetition     *)
(***************************************************************************)

\* C21: the returned list is sorted by total_score in non-increasing
\* order, every returned element is an element of the input list, and no
\* input object is returned more than once.
C21_SortedSubsetNoRepeats ==
    Returned =>
        /\ \A i \in 1..(Len(selected) - 1) :
              selected[i].total_score >= selected[i + 1].total_score
        /\ \A i \in 1..Len(selected) :
              \E k \in 1..Len(all_scored) : all_scored[k] = selected[i]
        /\ \A i, j \in 1..Len(selected) : i # j => selected[i] # selected[j]

\* C21 witness: with the category guarantee on, three objects of two
\* categories and differing scores are returned, the input not being in
\* score order.
C21_Witness ==
    /\ Returned
    /\ Args.ensure_category_representation
    /\ Len(selected) = 3
    /\ selected[1].category # selected[2].category
    /\ selected[1].total_score > selected[3].total_score
    /\ all_scored[1].total_score < all_scored[3].total_score


\* the transient bonus that C26 states for the object that was scored
ClaimedTransientBonus ==
    IF ScoreArgs.is_interstellar THEN Q(25, 1)
    ELSE IF ScoreArgs.category = "comet"
         THEN IF ScoreArgs.near_perihelion THEN Q(175, 10) ELSE Q(125, 10)
    ELSE IF ScoreArgs.category = "asteroid" THEN Q(75, 10)
    ELSE Zero

\* C26: the transient sub-score of score_object is 25 for an interstellar
\* object, 17.5 for a comet near perihelion, 12.5 for another comet, 7.5 for
\* an asteroid and 0 for every other category.
C26_TransientBonusByKind ==
    Scored => Breakdown.transient = ClaimedTransientBonus

\* the reason string mentions the phrase
Mentions(phrase) ==
    \E i \in 1..Len(scored[1].reason) : scored[1].reason[i] = phrase

\* C27 as stated: 'rare target' is mentioned exactly when the transient
\* bonus exceeds 18.75 (75% of 25) and 'peak season' exactly when the
\* seasonal score exceeds 11.25 (75% of 15).
C27_StandoutAboveThreeQuarters ==
    Scored =>
        /\ Mentions("rare target") <=> ~LessEq(Breakdown.transient, Q(1875, 100))
        /\ Mentions("peak season") <=> ~LessEq(Breakdown.seasonal, Q(1125, 100))

\* C27 amended: 'rare target' is mentioned exactly when the transient bonus
\* exceeds 15 and 'peak season' exactly when the seasonal score exceeds 10,
\* whatever share of the weight that is.
C27_StandoutAboveFixedThresholds ==
    Scored =>
        /\ Mentions("rare target") <=> ~LessEq(Breakdown.transient, Q(15, 1))
        /\ Mentions("peak season") <=> ~LessEq(Breakdown.seasonal, Q(10, 1))

\* C27 witness: an interstellar comet whose seasonal score is exactly 10 has
\* been scored: the reason names the rare target and not the peak season.
C27_Witness ==
    /\ Scored
    /\ Breakdown.seasonal = Q(10, 1)
    /\ Breakdown.transient = Q(25, 1)
    /\ Mentions("rare target")
    /\ ~Mentions("peak season")


(***************************************************************************)
(* Properties of the SearchResult built by ObjectSearcher                  *)
(***************************************************************************)

\* the three equivalences between the flags, the dates and the status
FlagsMatchStatus(r) ==
    /\ r.visible_tonight <=> r.visibility_status = "visible_tonight"
    /\ r.never_visible <=> r.visibility_status = "never_visible"
    /\ (r.next_visible_date = None /\ r.visibility = None)
           <=> r.visibility_status \in {"never_visible", "below_horizon"}

AutoCheckReportsUpdate == upd_event' \in {"auto_installed", "auto_install_failed"}

\* C29: once a successful update has put the remote version R in place, an
\* automatic check made while the remote is still at R reports no update:
\* the version that is installed is never installed again.
C29_UpdateConverges ==
    [][AutoCheckReportsUpdate => upd_installed # Some(upd_remote)]_vars


(***************************************************************************)
(* Properties of the comet cache                                           *)
(***************************************************************************)

\* the step is a refresh attempt whose download failed
RefreshFailed == cache_event' \in {"download_failed", "comets_download_failed"}

\* C30: a failed download never destroys cached data: when a cache file,
\* stale or not, existed before a refresh attempt whose download fails, the
\* same file exists afterwards.
C30_FailedDownloadKeepsCache ==
    [][(RefreshFailed /\ cache_file # None) => cache_file' = cache_file]_vars

====
